---- MODULE Spec2Model ----
(***************************************************************************)
(* A model of the Intecture API request/response layer:                    *)
(*   - the JSON line codec (core/src/host/remote.rs),                      *)
(*   - the command Child and its wire plumbing (core/src/command/child.rs),*)
(*   - the agent's request service (agent/src/main.rs) and the Remote and  *)
(*     Local hosts' request paths.                                         *)
(* Byte strings are sequences of ASCII codes.                              *)
(***************************************************************************)
EXTENDS Integers, Sequences, FiniteSets, TLC

(***************************************************************************)
(* Bounds of the model.                                                    *)
(***************************************************************************)
\* Largest number of body chunks of a message in the codec specification.
MaxChunks == 2

\* The sequences over S of length at most n.
RECURSIVE SeqsUpTo(_, _)
SeqsUpTo(S, n) ==
    IF n = 0 THEN {<<>>}
    ELSE LET shorter == SeqsUpTo(S, n - 1)
         IN  shorter \cup {Append(q, x) : q \in {r \in shorter : Len(r) = n - 1}, x \in S}

(***************************************************************************)
(* Bytes and JSON values.                                                  *)
(***************************************************************************)
\* b'\n', the frame delimiter.
NL == 10

\* The has-body flag bytes appended to a header line.
FlagBody == 1

FlagNoBody == 0

B_a == <<97>>

B_e == <<101>>

B_empty == <<>>

\* "a\nb": a chunk that holds a newline.
B_a_nl_b == <<97, 10, 98>>

B_null == <<110, 117, 108, 108>>

B_true == <<116, 114, 117, 101>>

B_false == <<102, 97, 108, 115, 101>>

B_Ok == <<79, 107>>

B_Err == <<69, 114, 114>>

\* A JSON value (serde_json::Value): null, a boolean, a number (its text), a
\* string (its bytes), an array (its elements e) or an object (its keys k,
\* sorted and distinct as in the Map of serde_json, and their values e).
JValue(t, b, s, k, e) == [t |-> t, b |-> b, s |-> s, k |-> k, e |-> e]

JScalar(t, b, s) == JValue(t, b, s, <<>>, <<>>)

SNull == JScalar("null", FALSE, <<>>)

SBool(b) == JScalar("bool", b, <<>>)

SStr(s) == JScalar("str", FALSE, s)

SNum(s) == JScalar("num", FALSE, s)

SArr(e) == JValue("arr", FALSE, <<>>, <<>>, e)

SMap(k, e) == JValue("map", FALSE, <<>>, k, e)

\* A JSON document as the enum deserializers look at it: an object with the
\* single key k (serde's externally tagged form of an enum variant) and its
\* value v, or any other value v.
JBare(v) == [obj |-> FALSE, k |-> <<>>, v |-> v]

JTagged(k, v) == [obj |-> TRUE, k |-> k, v |-> v]

json_doc(v) ==
    IF v.t = "map" /\ Len(v.k) = 1 THEN JTagged(v.k[1], v.e[1]) ELSE JBare(v)

\* Byte order of two strings, the order of the keys of a Map.
RECURSIVE bytes_less(_, _)
bytes_less(a, b) ==
    IF b = <<>> THEN FALSE
    ELSE IF a = <<>> THEN TRUE
    ELSE IF Head(a) # Head(b) THEN Head(a) < Head(b)
    ELSE bytes_less(Tail(a), Tail(b))

\* Map::insert: the key takes its sorted place; a key that is already
\* there gets the new value.
map_insert(m, key, val) ==
    LET n == Len(m.k)
        p == Cardinality({i \in 1..n : bytes_less(m.k[i], key)})
    IN
    IF p < n /\ m.k[p + 1] = key
    THEN [m EXCEPT !.e[p + 1] = val]
    ELSE [m EXCEPT !.k = SubSeq(@, 1, p) \o <<key>> \o SubSeq(@, p + 1, n),
                   !.e = SubSeq(@, 1, p) \o <<val>> \o SubSeq(@, p + 1, n)]

\* serde_json's string escapes for the bytes the model uses: newline,
\* double quote and backslash.
RECURSIVE escape(_)
escape(s) ==
    IF s = <<>> THEN <<>>
    ELSE LET c == Head(s)
             e == IF c = 10 THEN <<92, 110>>
                  ELSE IF c = 34 THEN <<92, 34>>
                  ELSE IF c = 92 THEN <<92, 92>>
                  ELSE <<c>>
         IN  e \o escape(Tail(s))

\* serde_json's rendering of a string.
json_string(str) == <<34>> \o escape(str) \o <<34>>

\* serde_json::to_vec of a value: compact, no raw newline.
RECURSIVE value_vec(_)
RECURSIVE values_vec(_)
RECURSIVE members_vec(_, _)
value_vec(v) ==
    CASE v.t = "null" -> B_null
      [] v.t = "bool" -> (IF v.b THEN B_true ELSE B_false)
      [] v.t = "str"  -> json_string(v.s)
      [] v.t = "num"  -> v.s
      [] v.t = "arr"  -> <<91>> \o values_vec(v.e) \o <<93>>
      [] OTHER        -> <<123>> \o members_vec(v.k, v.e) \o <<125>>

values_vec(e) ==
    IF e = <<>> THEN <<>>
    ELSE value_vec(Head(e))
             \o (IF Tail(e) = <<>> THEN <<>> ELSE <<44>>)
             \o values_vec(Tail(e))

members_vec(k, e) ==
    IF k = <<>> THEN <<>>
    ELSE json_string(Head(k)) \o <<58>> \o value_vec(Head(e))
             \o (IF Tail(k) = <<>> THEN <<>> ELSE <<44>>)
             \o members_vec(Tail(k), Tail(e))

\* serde_json::to_vec of a header value.
to_vec(j) ==
    IF j.obj
    THEN <<123>> \o json_string(j.k) \o <<58>> \o value_vec(j.v) \o <<125>>
    ELSE value_vec(j.v)

\* serde_json's parser. Of JSON it reads null, true, false, integers,
\* strings with the two-character escapes, arrays and objects, with
\* whitespace between the tokens; a byte above 127 stands for a byte
\* sequence that is not UTF-8.
ParseResult(ok, v, i) == [ok |-> ok, v |-> v, i |-> i]

ParseFail == ParseResult(FALSE, SNull, 0)

\* The position of the first byte at or after i that is not whitespace.
RECURSIVE skip_ws(_, _)
skip_ws(b, i) ==
    IF i <= Len(b) /\ b[i] \in {32, 9, 10, 13} THEN skip_ws(b, i + 1) ELSE i

\* The bytes at position i are the literal.
has_at(b, i, lit) ==
    /\ i + Len(lit) - 1 <= Len(b)
    /\ SubSeq(b, i, i + Len(lit) - 1) = lit

\* The byte an escape character stands for (0: not an escape).
unescape(c) ==
    CASE c = 34 -> 34
      [] c = 92 -> 92
      [] c = 47 -> 47
      [] c = 110 -> 10
      [] c = 116 -> 9
      [] c = 114 -> 13
      [] c = 98 -> 8
      [] c = 102 -> 12
      [] OTHER -> 0

\* A string from the byte after its opening quote.
RECURSIVE parse_str(_, _, _)
parse_str(b, i, acc) ==
    IF i > Len(b) THEN ParseFail
    ELSE IF b[i] = 34 THEN ParseResult(TRUE, SStr(acc), i + 1)
    ELSE IF b[i] = 92
    THEN (IF i + 1 > Len(b) \/ unescape(b[i + 1]) = 0 THEN ParseFail
          ELSE parse_str(b, i + 2, Append(acc, unescape(b[i + 1]))))
    ELSE IF b[i] < 32 \/ b[i] > 127 THEN ParseFail
    ELSE parse_str(b, i + 1, Append(acc, b[i]))

\* The position after the digits that start at i.
RECURSIVE digits_end(_, _)
digits_end(b, i) ==
    IF i <= Len(b) /\ b[i] \in 48..57 THEN digits_end(b, i + 1) ELSE i

\* An integer: an optional minus sign and digits without a leading zero.
parse_num(b, i) ==
    LET j == IF b[i] = 45 THEN i + 1 ELSE i
        e == digits_end(b, j)
    IN
    IF e = j THEN ParseFail
    ELSE IF b[j] = 48 /\ e > j + 1 THEN ParseFail
    ELSE ParseResult(TRUE, SNum(SubSeq(b, i, e - 1)), e)

RECURSIVE parse_value(_, _)
RECURSIVE parse_elems(_, _, _)
RECURSIVE parse_members(_, _, _)
\* The value that starts at or after position i, and the position after it.
parse_value(b, i0) ==
    LET i == skip_ws(b, i0) IN
    IF i > Len(b) THEN ParseFail
    ELSE IF has_at(b, i, B_null) THEN ParseResult(TRUE, SNull, i + 4)
    ELSE IF has_at(b, i, B_true) THEN ParseResult(TRUE, SBool(TRUE), i + 4)
    ELSE IF has_at(b, i, B_false) THEN ParseResult(TRUE, SBool(FALSE), i + 5)
    ELSE IF b[i] = 34 THEN parse_str(b, i + 1, <<>>)
    ELSE IF b[i] = 91
    THEN (LET j == skip_ws(b, i + 1) IN
          IF j <= Len(b) /\ b[j] = 93
          THEN ParseResult(TRUE, SArr(<<>>), j + 1)
          ELSE parse_elems(b, i + 1, <<>>))
    ELSE IF b[i] = 123
    THEN (LET j == skip_ws(b, i + 1) IN
          IF j <= Len(b) /\ b[j] = 125
          THEN ParseResult(TRUE, SMap(<<>>, <<>>), j + 1)
          ELSE parse_members(b, i + 1, SMap(<<>>, <<>>)))
    ELSE IF b[i] = 45 \/ b[i] \in 48..57 THEN parse_num(b, i)
    ELSE ParseFail

\* The elements of an array from position i: a value, then a comma and
\* more, or the closing bracket.
parse_elems(b, i, acc) ==
    LET r == parse_value(b, i) IN
    IF ~r.ok THEN ParseFail
    ELSE LET j == skip_ws(b, r.i) IN
         IF j > Len(b) THEN ParseFail
         ELSE IF b[j] = 93 THEN ParseResult(TRUE, SArr(Append(acc, r.v)), j + 1)
         ELSE IF b[j] = 44 THEN parse_elems(b, j + 1, Append(acc, r.v))
         ELSE ParseFail

\* The members of an object from position i: a key, a colon and a value,
\* then a comma and more, or the closing brace.
parse_members(b, i0, m) ==
    LET i == skip_ws(b, i0) IN
    IF i > Len(b) \/ b[i] # 34 THEN ParseFail
    ELSE LET key == parse_str(b, i + 1, <<>>) IN
         IF ~key.ok THEN ParseFail
         ELSE LET c == skip_ws(b, key.i) IN
              IF c > Len(b) \/ b[c] # 58 THEN ParseFail
              ELSE LET r == parse_value(b, c + 1) IN
                   IF ~r.ok THEN ParseFail
                   ELSE LET j  == skip_ws(b, r.i)
                            m2 == map_insert(m, key.v.s, r.v)
                        IN
                        IF j > Len(b) THEN ParseFail
                        ELSE IF b[j] = 125 THEN ParseResult(TRUE, m2, j + 1)
                        ELSE IF b[j] = 44 THEN parse_members(b, j + 1, m2)
                        ELSE ParseFail

JsonError == [obj |-> FALSE, k |-> <<>>, v |-> JScalar("error", FALSE, <<>>)]

\* serde_json::from_slice: the one value the bytes hold, with nothing but
\* whitespace after it.
from_slice(bytes) ==
    LET r == parse_value(bytes, 1) IN
    IF r.ok /\ skip_ws(bytes, r.i) > Len(bytes) THEN json_doc(r.v) ELSE JsonError

\* Error messages of the model: "a" and a two-line display chain "a\nb".
ErrTexts == {B_a, B_a_nl_b}

\* "hostname", "memory", "h"
B_hostname == <<104, 111, 115, 116, 110, 97, 109, 101>>

B_memory == <<109, 101, 109, 111, 114, 121>>

B_h == <<104>>

\* Telemetry as a JSON object, cut down to {"hostname":"h","memory":1}.
TelemetryValue == SMap(<<B_hostname, B_memory>>, <<SStr(B_h), SNum(<<49>>)>>)

\* The Result-shaped envelope {"Ok": v} / {"Err": s}.
JOk(v) == JTagged(B_Ok, v)

JErr(s) == JTagged(B_Err, SStr(s))

ResponseScalars == {SNull, SBool(TRUE), SBool(FALSE), TelemetryValue}

ResponseHeaders ==
    {JBare(v) : v \in ResponseScalars}
        \cup {JOk(v) : v \in ResponseScalars}
        \cup {JErr(s) : s \in ErrTexts}

(***************************************************************************)
(* Requests as JSON (core/src/request.rs): {"Variant": payload}.           *)
(***************************************************************************)
\* "CommandExec"
K_CommandExec ==
    <<67, 111, 109, 109, 97, 110, 100, 69, 120, 101, 99>>

\* "PackageInstalled"
K_PackageInstalled ==
    <<80, 97, 99, 107, 97, 103, 101, 73, 110, 115, 116, 97, 108, 108, 101,
    100>>

\* "PackageInstall"
K_PackageInstall ==
    <<80, 97, 99, 107, 97, 103, 101, 73, 110, 115, 116, 97, 108, 108>>

\* "PackageUninstall"
K_PackageUninstall ==
    <<80, 97, 99, 107, 97, 103, 101, 85, 110, 105, 110, 115, 116, 97, 108,
    108>>

\* "ServiceRunning"
K_ServiceRunning ==
    <<83, 101, 114, 118, 105, 99, 101, 82, 117, 110, 110, 105, 110, 103>>

\* "ServiceAction"
K_ServiceAction ==
    <<83, 101, 114, 118, 105, 99, 101, 65, 99, 116, 105, 111, 110>>

\* "ServiceEnabled"
K_ServiceEnabled ==
    <<83, 101, 114, 118, 105, 99, 101, 69, 110, 97, 98, 108, 101, 100>>

\* "ServiceEnable"
K_ServiceEnable ==
    <<83, 101, 114, 118, 105, 99, 101, 69, 110, 97, 98, 108, 101>>

\* "ServiceDisable"
K_ServiceDisable ==
    <<83, 101, 114, 118, 105, 99, 101, 68, 105, 115, 97, 98, 108, 101>>

\* "TelemetryLoad"
K_TelemetryLoad ==
    <<84, 101, 108, 101, 109, 101, 116, 114, 121, 76, 111, 97, 100>>

\* "NoSuchVariant": a key that names no variant
K_NoSuchVariant ==
    <<78, 111, 83, 117, 99, 104, 86, 97, 114, 105, 97, 110, 116>>

\* The variants of enum Request, in its order.
RequestVariants ==
    <<K_CommandExec, K_PackageInstalled, K_PackageInstall, K_PackageUninstall,
      K_ServiceRunning, K_ServiceAction, K_ServiceEnabled, K_ServiceEnable,
      K_ServiceDisable, K_TelemetryLoad>>

KnownKeys == {RequestVariants[i] : i \in 1..Len(RequestVariants)}

\* Largest number of arguments of a command in the round-trip
\* specification.
MaxArgs == 2

\* "n", "c", "start", and a string that holds a double quote.
B_n == <<110>>

B_c == <<99>>

B_start == <<115, 116, 97, 114, 116>>

B_quote == <<34>>

\* The field names "name", "action" and "cmd".
B_name == <<110, 97, 109, 101>>

B_action == <<97, 99, 116, 105, 111, 110>>

B_cmd == <<99, 109, 100>>

\* A value of enum Request: the variant k and the fields of its struct
\* (fields the struct does not have are empty).
TRequest(k, name, action, cmd) ==
    [k |-> k, name |-> name, action |-> action, cmd |-> cmd]

Names == {B_n, B_quote, B_empty}

Actions == {B_start, B_quote}

CmdLists == SeqsUpTo({B_c, B_quote}, MaxArgs)

TypedRequests ==
    {TRequest(K_CommandExec, <<>>, <<>>, cmd) : cmd \in CmdLists}
        \cup {TRequest(K_ServiceAction, n, a, <<>>) : n \in Names, a \in Actions}
        \cup {TRequest(K_TelemetryLoad, <<>>, <<>>, <<>>)}
        \cup {TRequest(k, n, <<>>, <<>>) :
                 k \in KnownKeys \ {K_CommandExec, K_ServiceAction, K_TelemetryLoad},
                 n \in Names}

\* The fields of the struct of each variant, in the order of the source.
struct_fields(k) ==
    IF k = K_CommandExec THEN <<B_cmd>>
    ELSE IF k = K_ServiceAction THEN <<B_name, B_action>>
    ELSE IF k = K_TelemetryLoad THEN <<>>
    ELSE <<B_name>>

\* The derived Serialize of the variant's struct under json::to_value: the
\* fields are inserted into a Map in the order of the source, which keeps
\* its keys sorted; the unit struct TelemetryLoad is null.
payload_json(R) ==
    IF R.k = K_CommandExec
    THEN map_insert(SMap(<<>>, <<>>), B_cmd,
                    SArr([i \in 1..Len(R.cmd) |-> SStr(R.cmd[i])]))
    ELSE IF R.k = K_ServiceAction
    THEN map_insert(map_insert(SMap(<<>>, <<>>), B_name, SStr(R.name)),
                    B_action, SStr(R.action))
    ELSE IF R.k = K_TelemetryLoad THEN SNull
    ELSE map_insert(SMap(<<>>, <<>>), B_name, SStr(R.name))

\* The payload of the request of variant k that the request specification
\* issues: the command <<"c">>, the name "n", the action "start".
payload_of(k) == payload_json(TRequest(k, B_n, B_start, <<B_c>>))

\* json::to_value(request): the externally tagged form of the variant.
request_to_value(R) == JTagged(R.k, payload_json(R))

(***************************************************************************)
(* State.                                                                  *)
(***************************************************************************)
VARIABLES
    \* codec specification
    c_msgs,          \* the messages to send, in order
    c_enc,           \* number of their frames encoded so far
    c_wire,          \* bytes written by the encoder, not yet received
    c_buf,           \* the decoder's read buffer
    decoding_head,   \* JsonLineCodec.decoding_head
    c_frames,        \* frames decoded so far
    c_status,        \* "ok", "error" (decode returned Err), "panic"
    \* command specification: the child process on the agent's machine
    script,          \* [out, err]: the lines the child writes to each pipe
    child,           \* lines written so far, running/exited, OS outcome
    \* command specification: the task spawned by Child::into_msg
    task,            \* forward/status futures, Select flag, Sender parking
    chan,            \* the body channel of Body::pair()
    sent,            \* every chunk ever placed on the body channel
    rx_alive,        \* the agent's transport still holds the Body
    s_pos,           \* response position: "header", "body", "ended"
    \* command specification: the Remote host and its consumer
    cl_call,         \* the request future of Plain::request
    cl_msg,          \* the message the transport handed to the request's oneshot
    cl_recv,         \* body chunks decoded so far
    cl_body_state,   \* "open", "end" (end-of-body seen), "error"
    cl_pulled,       \* chunks the consumer pulled out of the body
    cl_child,        \* [tx, rx]: the oneshot of Child::from_msg
    cons,            \* the consumer of the Child's stream
    cl_lines,        \* lines the stream yielded to the consumer
    \* request specification: one connection between a Remote host and the agent
    q_reqs,          \* the requests the client issues, with how each executes
    q_idx,           \* number of requests the client has written
    q_up,            \* bytes from the client to the agent
    q_srv_head,      \* decoding_head of the agent's codec
    q_conn,          \* "open" or "closed"
    q_svc,           \* what Api::call did for each request it was given
    q_out,           \* number of responses the agent's transport has taken up
    q_wrote,         \* every frame the agent put on the connection, with its response's index
    q_wbuf,          \* frames encoded into the write buffer, not yet flushed
    q_ready,         \* the responses in flight whose future has completed
    q_body,          \* body frames of the current response, not yet written
    q_down,          \* bytes from the agent to the client
    q_cl_head,       \* decoding_head of the client's codec
    q_got,           \* responses handed to their oneshots, not yet resolved
    q_pend,          \* per result, the body frames received and not yet polled
    q_remote,        \* the result of each request on the Remote host
    q_local,         \* the result of the same request on a Local host
    \* request round-trip specification
    rt_req,          \* the Request value
    rt_pc,           \* "new", "msg", "wire", "read", "done", "answered"
    rt_msg,          \* the message Request::into_msg made, then the one decoded
    rt_wire,         \* its bytes on the wire
    rt_back,         \* what Request::from_msg returned
    rt_resp,         \* what the agent's service answered
    \* client library specification
    l_endpoint,      \* "Package" or "Service": the endpoint the caller uses
    l_prov,          \* the package provider of the machine
    l_db,            \* the packages installed on the machine
    l_procs,         \* the package manager commands running on the machine
    l_call,          \* the call in progress, or the last one
    l_pc,            \* "idle", "check", "do", "done"
    l_chk,           \* what the call's check resolved to
    l_res,           \* what the call resolved to
    l_issued,        \* the requests the call issued, in order
    l_prev,          \* the call finished before this one
    l_n,             \* the number of calls made
    l_chk_err,       \* the error the check failed with
    l_err,           \* the error the call failed with
    \* factory specification
    f_endpoint,      \* "Command", "Package" or "Service"
    f_env,           \* the machine: its probe commands and its telemetry
    f_pc,            \* "idle", "new", "done"
    f_result,        \* what the factory returned
    \* Child specification
    ch_origin,       \* "spawn" (From<tokio_process::Child>) or "msg" (from_msg)
    ch_stream,       \* the Child's stream: "Some" or "None"
    ch_exit,         \* the Child's exit_status: "status", "drained" or "done"
    ch_alive,        \* FALSE once result() has consumed the Child
    ch_log,          \* the calls made on the Child with what they returned
    \* CommandResult specification
    rs_items,        \* the lines the Child's stream yields
    rs_end,          \* "end" or "error": how the stream finishes
    rs_status,       \* what the exit-status future resolves to
    rs_pos,          \* the number of lines folded
    rs_acc,          \* the accumulator of the fold
    rs_fold,         \* the fold: "running", "done", "failed"
    rs_st,           \* the exit-status future: "waiting", "done", "failed"
    rs_out,          \* what the CommandResult resolved to
    \* Plain::call specification
    ca_resp,         \* what the transport's call resolves to
    ca_pc,           \* "called" or "done"
    ca_out,          \* what the request future resolved to
    \* Agent specification
    ag_proc,         \* the agent process: "running" or "aborted"
    ag_telemetry,    \* how Telemetry::load ends on this machine: "ok", "error"
    cn,              \* per connection: state, bytes received, decoding_head
    ag_log,          \* what the agent did, in order
    \* Provider setter specification
    st_host,         \* the Host type: "Local" or "Plain"
    st_table,        \* the provider table behind the Arc
    st_others,       \* the number of other clones of the Host
    st_pc,           \* the setter: "idle", "try", "sleep", "Ok", "MutRef"
    st_call,         \* the setter called, its provider, the table at the call
    st_attempts,     \* the iterations of the loop so far
    st_n,            \* the number of setter calls made
    \* Package query specification
    pq_prov,         \* the package provider
    pq_name,         \* the package asked for
    pq_out,          \* how the provider's query command ends
    pq_pc,           \* "called" or "done"
    pq_res,          \* what installed() resolved to
    \* Concurrent wrapper specification
    rc_kind,         \* "Package" (install) or "Service" (action start)
    rc_state,        \* the machine: the package is installed, the service runs
    rc_procs,        \* the mutating commands running on the machine
    rc,              \* per caller: pc, result of the check, result of the call
    rc_log,          \* the requests in the order the host executed them
    \* Legacy telemetry specification
    tg_fields,       \* the fields of the Telemetry struct: "None" or a value
    tg_ok,           \* per field, the queries that succeeded
    tg_last,         \* the last getter called, what it returned, if it queried
    tg_n             \* the number of getter calls made

codecVars == <<c_msgs, c_enc, c_wire, c_buf, decoding_head, c_frames, c_status>>

childVars == <<script, child>>

agentVars == <<task, chan, sent, rx_alive, s_pos>>

clientVars == <<cl_call, cl_msg, cl_recv, cl_body_state, cl_pulled, cl_child, cons, cl_lines>>

cmdVars == <<childVars, agentVars, clientVars>>

codecOnly == <<c_msgs, c_enc, c_buf, c_frames>>

reqVars == <<q_reqs, q_idx, q_up, q_srv_head, q_conn, q_svc, q_out, q_wrote, q_wbuf, q_ready,
             q_body, q_down, q_cl_head, q_got, q_pend, q_remote, q_local>>

rtVars == <<rt_req, rt_pc, rt_msg, rt_wire, rt_back, rt_resp>>

lcVars == <<l_endpoint, l_prov, l_db, l_procs, l_call, l_pc, l_chk, l_res,
            l_issued, l_prev, l_n, l_chk_err, l_err>>

fVars == <<f_endpoint, f_env, f_pc, f_result>>

chVars == <<ch_origin, ch_stream, ch_exit, ch_alive, ch_log>>

rsVars == <<rs_items, rs_end, rs_status, rs_pos, rs_acc, rs_fold, rs_st, rs_out>>

caVars == <<ca_resp, ca_pc, ca_out>>

agVars == <<ag_proc, ag_telemetry, cn, ag_log>>

stVars == <<st_host, st_table, st_others, st_pc, st_call, st_attempts, st_n>>

pqVars == <<pq_prov, pq_name, pq_out, pq_pc, pq_res>>

rcVars == <<rc_kind, rc_state, rc_procs, rc, rc_log>>

tgVars == <<tg_fields, tg_ok, tg_last, tg_n>>

\* The state of the client library's first specifications.
libBaseVars == <<rtVars, lcVars, fVars, chVars>>

\* The state a step of the CommandResult specification leaves alone.
exceptRs == <<codecVars, cmdVars, reqVars, libBaseVars, caVars, agVars, stVars,
             pqVars, rcVars, tgVars>>

\* The state a step of the Plain::call specification leaves alone.
exceptCa == <<codecVars, cmdVars, reqVars, libBaseVars, rsVars, agVars, stVars,
             pqVars, rcVars, tgVars>>

\* The state a step of the agent specification leaves alone.
exceptAg == <<codecVars, cmdVars, reqVars, libBaseVars, rsVars, caVars, stVars,
             pqVars, rcVars, tgVars>>

\* The state a step of the package query specification leaves alone.
exceptPq == <<codecVars, cmdVars, reqVars, libBaseVars, rsVars, caVars, agVars, stVars,
             rcVars, tgVars>>

\* The state a step of the provider setter specification leaves alone.
exceptSt == <<codecVars, cmdVars, reqVars, libBaseVars, rsVars, caVars, agVars,
             pqVars, rcVars, tgVars>>

\* The state a step of the concurrent wrapper specification leaves alone.
exceptRc == <<codecVars, cmdVars, reqVars, libBaseVars, rsVars, caVars, agVars,
             stVars, pqVars, tgVars>>

\* The state a step of the legacy telemetry specification leaves alone.
exceptTg == <<codecVars, cmdVars, reqVars, libBaseVars, rsVars, caVars, agVars,
             stVars, pqVars, rcVars>>

\* The state of the specifications that follow the Child one.
afterCh == <<rsVars, caVars, agVars, stVars, pqVars, rcVars, tgVars>>

\* The state of the specifications that follow the factory one.
afterF == <<chVars, afterCh>>

\* The state of the specifications that follow the client library one.
afterLc == <<fVars, afterF>>

\* The state of the specifications that follow the round-trip one.
afterRt == <<lcVars, afterLc>>

\* The state of the specifications of the client library.
libVars == <<rtVars, afterRt>>

vars == <<codecVars, cmdVars, reqVars, libVars>>

(***************************************************************************)
(* Frames (tokio_proto::streaming::pipeline::Frame).                       *)
(***************************************************************************)
MessageFrame(message, body) ==
    [kind |-> "Message", message |-> message, body |-> body,
     some |-> FALSE, chunk |-> <<>>]

BodyFrame(chunk) ==
    [kind |-> "Body", message |-> JBare(SNull), body |-> FALSE,
     some |-> TRUE, chunk |-> chunk]

BodyEnd ==
    [kind |-> "Body", message |-> JBare(SNull), body |-> FALSE,
     some |-> FALSE, chunk |-> <<>>]

\* No message was handed over yet.
NoMessage == MessageFrame(JBare(SNull), FALSE)

\* The frames tokio-proto hands to the encoder for one message.
FramesOf(m) ==
    <<MessageFrame(m.header, m.body)>>
        \o (IF m.body
            THEN [i \in 1..Len(m.chunks) |-> BodyFrame(m.chunks[i])] \o <<BodyEnd>>
            ELSE <<>>)

RECURSIVE FramesOfAll(_)
FramesOfAll(ms) ==
    IF ms = <<>> THEN <<>> ELSE FramesOf(Head(ms)) \o FramesOfAll(Tail(ms))

(***************************************************************************)
(* JsonLineCodec.                                                          *)
(***************************************************************************)
\* A mutant of encode: the has-body flag byte is always 0.
encode_flag_always_zero(frame, buf) ==
    IF frame.kind = "Message"
    THEN buf \o to_vec(frame.message) \o <<FlagNoBody>> \o <<NL>>
    ELSE IF frame.some THEN buf \o frame.chunk \o <<NL>> ELSE buf \o <<NL>>

\* Encoder for JsonLineCodec::encode: the buffer after the frame is written.
encode(frame, buf) ==
    IF frame.kind = "Message"
    THEN buf \o to_vec(frame.message)
             \o (IF frame.body THEN <<FlagBody>> ELSE <<FlagNoBody>>)
             \o <<NL>>
    ELSE IF frame.some THEN buf \o frame.chunk \o <<NL>> ELSE buf \o <<NL>>

\* buf.iter().position(|b| *b == b'\n'): 0 when there is none.
position_nl(buf) ==
    IF \E i \in 1..Len(buf) : buf[i] = NL
    THEN CHOOSE i \in 1..Len(buf) : buf[i] = NL /\ \A j \in 1..(i - 1) : buf[j] # NL
    ELSE 0

DecodeResult(res, frame, buf, head) ==
    [res |-> res, frame |-> frame, buf |-> buf, head |-> head]

\* A mutant of decode: a header that is not valid JSON panics.
decode_json_error_panics(buf, head) ==
    LET n == position_nl(buf) IN
    IF n = 0 THEN DecodeResult("none", BodyEnd, buf, head)
    ELSE
        LET line == SubSeq(buf, 1, n - 1)
            rest == SubSeq(buf, n + 1, Len(buf))
        IN
        IF head
        THEN
            IF line = <<>>
            THEN DecodeResult("panic", BodyEnd, rest, head)
            ELSE
                LET has_body == line[Len(line)]
                    json     == SubSeq(line, 1, Len(line) - 1)
                    head2    == IF has_body = 1 THEN FALSE ELSE head
                    message  == from_slice(json)
                IN
                IF message = JsonError
                THEN DecodeResult("panic", BodyEnd, rest, head2)
                ELSE DecodeResult("frame", MessageFrame(message, has_body = 1),
                                  rest, head2)
        ELSE
            IF line = <<>>
            THEN DecodeResult("frame", BodyEnd, rest, TRUE)
            ELSE DecodeResult("frame", BodyFrame(line), rest, head)

\* Decoder for JsonLineCodec::decode on buffer buf in mode head.
\* res: "none" (Ok(None)), "frame" (Ok(Some)), "error" (Err), "panic".
decode(buf, head) ==
    LET n == position_nl(buf) IN
    IF n = 0 THEN DecodeResult("none", BodyEnd, buf, head)
    ELSE
        LET line == SubSeq(buf, 1, n - 1)
            rest == SubSeq(buf, n + 1, Len(buf))
        IN
        IF head
        THEN
            IF line = <<>>
            THEN DecodeResult("panic", BodyEnd, rest, head)
            ELSE
                LET has_body == line[Len(line)]
                    json     == SubSeq(line, 1, Len(line) - 1)
                    head2    == IF has_body = 1 THEN FALSE ELSE head
                    message  == from_slice(json)
                IN
                IF message = JsonError
                THEN DecodeResult("error", BodyEnd, rest, head2)
                ELSE DecodeResult("frame", MessageFrame(message, has_body = 1),
                                  rest, head2)
        ELSE
            IF line = <<>>
            THEN DecodeResult("frame", BodyEnd, rest, TRUE)
            ELSE DecodeResult("frame", BodyFrame(line), rest, head)

(***************************************************************************)
(* The codec specification: messages are encoded frame by frame, the bytes *)
(* arrive in pieces, and the decoder is run on what has arrived.           *)
(***************************************************************************)
\* "a" followed by the byte 1: as a body chunk it is two bytes of output; read
\* in header position it is a line whose flag byte is 1 and whose JSON is
\* not valid.
B_a_one == <<97, 1>>

\* The body chunks of the codec specification: the chunks that end a body
\* early or split (empty, holding a newline) make the lines after them be
\* read in header position.
ChunkValues == {B_a, B_empty, B_a_nl_b, B_a_one}

CodecHeaders == {JOk(SNull), JBare(SBool(TRUE)), JErr(B_a_nl_b)}

CodecMessages ==
    {[header |-> h, body |-> FALSE, chunks |-> <<>>] : h \in CodecHeaders}
        \cup {[header |-> h, body |-> TRUE, chunks |-> cs] :
                h \in CodecHeaders, cs \in SeqsUpTo(ChunkValues, MaxChunks)}

\* A message without body that may follow on the same connection.
FollowUp == [header |-> JOk(SBool(TRUE)), body |-> FALSE, chunks |-> <<>>]

CodecEncode ==
    /\ c_enc < Len(FramesOfAll(c_msgs))
    /\ c_enc' = c_enc + 1
    /\ c_wire' = encode(FramesOfAll(c_msgs)[c_enc + 1], c_wire)
    /\ UNCHANGED <<c_msgs, c_buf, decoding_head, c_frames, c_status, cmdVars, reqVars, libVars>>

CodecDeliver ==
    /\ c_wire # <<>>
    /\ \E k \in 1..Len(c_wire) :
        /\ c_buf' = c_buf \o SubSeq(c_wire, 1, k)
        /\ c_wire' = SubSeq(c_wire, k + 1, Len(c_wire))
    /\ UNCHANGED <<c_msgs, c_enc, decoding_head, c_frames, c_status, cmdVars, reqVars, libVars>>

CodecDecode ==
    /\ c_status = "ok"
    /\ LET r == decode(c_buf, decoding_head) IN
        /\ r.res # "none"
        /\ c_buf' = r.buf
        /\ decoding_head' = r.head
        /\ c_frames' = IF r.res = "frame" THEN Append(c_frames, r.frame) ELSE c_frames
        /\ c_status' = IF r.res = "frame" THEN "ok" ELSE r.res
    /\ UNCHANGED <<c_msgs, c_enc, c_wire, cmdVars, reqVars, libVars>>


(***************************************************************************)
(* ExitStatus and its sentinel frame (core/src/command/child.rs).          *)
(***************************************************************************)
\* "ExitStatus:"
B_ExitStatus == <<69, 120, 105, 116, 83, 116, 97, 116, 117, 115, 58>>

\* {"success":
B_success == <<123, 34, 115, 117, 99, 99, 101, 115, 115, 34, 58>>

\* ,"code":
B_code == <<44, 34, 99, 111, 100, 101, 34, 58>>

\* A byte that is not valid UTF-8.
B_invalid == <<255>>

\* ExitStatus { success, code }: code is None when has_code is FALSE.
ExitStatus(success, has_code, code) ==
    [success |-> success, has_code |-> has_code, code |-> code]

\* What the operating system reports for the child: it exited with code n,
\* it was killed by a signal, or waiting for it failed.
OsExited(n) == [kind |-> "exited", n |-> n]

OsSignaled == [kind |-> "signaled", n |-> 0]

OsWaitError == [kind |-> "wait_error", n |-> 0]

OsOutcomes == {OsExited(0), OsSignaled, OsWaitError}

\* child.map(|s| ExitStatus { success: s.success(), code: s.code() })
exit_status_of(os) ==
    ExitStatus(os.kind = "exited" /\ os.n = 0, os.kind = "exited", os.n)

StatusValues == {exit_status_of(os) : os \in OsOutcomes \ {OsWaitError}}

\* serde_json::to_string(&ExitStatus)
status_to_string(s) ==
    B_success \o (IF s.success THEN B_true ELSE B_false)
        \o B_code \o (IF s.has_code THEN <<48 + s.code>> ELSE B_null)
        \o <<125>>

\* The sentinel frame: "ExitStatus:" followed by the JSON of the status.
sentinel_frame(s) == B_ExitStatus \o status_to_string(s)

\* The values of the struct ExitStatus { success: bool, code: Option<i32> }
\* with the codes 0 and 1: the derived Deserialize accepts each of them.
JsonStatuses ==
    {ExitStatus(b, TRUE, c) : b \in BOOLEAN, c \in 0..1}
        \cup {ExitStatus(b, FALSE, 0) : b \in BOOLEAN}

\* serde_json::from_str::<ExitStatus>
status_parses(json) == \E s \in JsonStatuses : status_to_string(s) = json

status_from_str(json) == CHOOSE s \in JsonStatuses : status_to_string(s) = json

\* str::starts_with
starts_with(s, prefix) ==
    Len(s) >= Len(prefix) /\ SubSeq(s, 1, Len(prefix)) = prefix

\* String::from_utf8_lossy: invalid bytes become U+FFFD.
RECURSIVE from_utf8_lossy(_)
from_utf8_lossy(v) ==
    IF v = <<>> THEN <<>>
    ELSE (IF Head(v) >= 128 THEN <<239, 191, 189>> ELSE <<Head(v)>>)
             \o from_utf8_lossy(Tail(v))

(***************************************************************************)
(* The child process and its two pipes.                                    *)
(***************************************************************************)
\* A line of output that is an exit-status frame of its own:
\* ExitStatus:{"success":true,"code":1}
FakeSentinel == sentinel_frame(ExitStatus(TRUE, TRUE, 1))

OutLines == {B_a, B_empty, FakeSentinel, B_invalid}

ErrLines == {B_e}

ChildWrite(src) ==
    /\ child.state = "running"
    /\ child[src] < Len(script[src])
    /\ child' = [child EXCEPT ![src] = @ + 1]
    /\ UNCHANGED <<script, agentVars, clientVars, codecVars, reqVars, libVars>>

\* The child exits once it has written its output; its pipes close.
ChildExit ==
    /\ child.state = "running"
    /\ child.out = Len(script.out)
    /\ child.err = Len(script.err)
    /\ \E os \in OsOutcomes : child' = [child EXCEPT !.state = "exited", !.os = os]
    /\ UNCHANGED <<script, agentVars, clientVars, codecVars, reqVars, libVars>>

(***************************************************************************)
(* From<tokio_process::Child> for Child: the stream is                     *)
(* lines(stdout).select(lines(stderr)), the status is the child's wait.    *)
(***************************************************************************)
\* One poll of lines(pipe) after rd lines were read.
line_poll(src, rd) ==
    IF rd < child[src]
    THEN (IF \E i \in 1..Len(script[src][rd + 1]) : script[src][rd + 1][i] >= 128
          THEN "error" ELSE "item")
    ELSE IF child.state = "exited" THEN "none" ELSE "notready"

Chunk(data, src, idx) == [data |-> data, src |-> src, idx |-> idx]

NoChunk == Chunk(<<>>, "none", 0)

SelectResult(res, item, t) == [res |-> res, item |-> item, t |-> t]

take_line(src, t) ==
    Chunk(script[src][t.rd[src] + 1], src, t.rd[src] + 1)

\* futures::stream::Select::poll: the flag says which stream goes first.
select_poll(t) ==
    LET first  == IF t.flag THEN "err" ELSE "out"
        second == IF t.flag THEN "out" ELSE "err"
        t1     == [t EXCEPT !.flag = ~t.flag]
        a      == line_poll(first, t.rd[first])
        b      == line_poll(second, t.rd[second])
    IN
    IF a = "error" THEN SelectResult("error", NoChunk, t1)
    ELSE IF a = "item"
    THEN SelectResult("item", take_line(first, t),
                      [t1 EXCEPT !.rd[first] = @ + 1])
    ELSE IF b = "error" THEN SelectResult("error", NoChunk, t1)
    ELSE IF b = "item"
    THEN SelectResult("item", take_line(second, t),
                      [t1 EXCEPT !.rd[second] = @ + 1,
                                 !.flag = IF a = "none" THEN @ ELSE ~@])
    ELSE IF a = "none" /\ b = "none" THEN SelectResult("none", NoChunk, t1)
    ELSE SelectResult("notready", NoChunk, t1)

(***************************************************************************)
(* IntoMessage for Child: the spawned task                                 *)
(*     stream.forward(tx1).join(status.and_then(|s| tx2.send(frame)))      *)
(* over the body channel of Body::pair(), an mpsc::channel(0): a Sender    *)
(* that has sent is parked until the receiver takes a message.             *)
(***************************************************************************)
\* The task state with the channel it writes to.
Ctx(t, c, h, r) == [t |-> t, chan |-> c, sent |-> h, r |-> r]

\* mpsc::Sender::start_send by sender who ("tx1" or "tx2").
start_send(x, who, item) ==
    IF x.t.parked[who] THEN Ctx(x.t, x.chan, x.sent, "notready")
    ELSE IF ~rx_alive THEN Ctx(x.t, x.chan, x.sent, "failed")
    ELSE Ctx([x.t EXCEPT !.parked[who] = TRUE],
             Append(x.chan, [item EXCEPT !.src = IF who = "tx2" THEN "status" ELSE @]),
             Append(x.sent, [item EXCEPT !.src = IF who = "tx2" THEN "status" ELSE @]),
             "ready")

\* Forward::try_start_send: an item the sink refuses is kept in `buffered`.
try_start_send(x, item) ==
    LET y == start_send(x, "tx1", item) IN
    IF y.r = "notready"
    THEN Ctx([y.t EXCEPT !.buffered = <<item>>], y.chan, y.sent, "notready")
    ELSE Ctx([y.t EXCEPT !.buffered = <<>>], y.chan, y.sent, y.r)

\* The loop of Forward::poll.
RECURSIVE forward_loop(_)
forward_loop(x) ==
    LET s == select_poll(x.t) IN
    CASE s.res = "error"    -> Ctx(s.t, x.chan, x.sent, "failed")
      [] s.res = "none"     -> Ctx([s.t EXCEPT !.fwd = "done"], x.chan, x.sent, "ready")
      [] s.res = "notready" -> Ctx(s.t, x.chan, x.sent, "notready")
      [] OTHER ->
            LET y == try_start_send(Ctx(s.t, x.chan, x.sent, "ready"), s.item) IN
            IF y.r = "ready" THEN forward_loop(y) ELSE y

\* Forward::poll (MaybeDone: a finished forward is not polled again).
forward_poll(x) ==
    IF x.t.fwd = "done" THEN Ctx(x.t, x.chan, x.sent, "ready")
    ELSE IF x.t.buffered # <<>>
    THEN LET y == try_start_send(x, x.t.buffered[1]) IN
         IF y.r = "ready" THEN forward_loop(y) ELSE y
    ELSE forward_loop(x)

\* A mutant of status_poll: the status is done without a sentinel.
status_poll_no_sentinel(x) ==
    IF child.state # "exited" THEN Ctx(x.t, x.chan, x.sent, "notready")
    ELSE Ctx([x.t EXCEPT !.status = "done"], x.chan, x.sent, "ready")

\* The exit-status future and_then tx2.send(frame).
status_poll(x) ==
    IF x.t.status = "done" THEN Ctx(x.t, x.chan, x.sent, "ready")
    ELSE IF child.state # "exited" THEN Ctx(x.t, x.chan, x.sent, "notready")
    ELSE IF child.os = OsWaitError THEN Ctx(x.t, x.chan, x.sent, "failed")
    ELSE
        LET frame == Chunk(sentinel_frame(exit_status_of(child.os)), "status", 1)
            y     == start_send(x, "tx2", frame)
        IN
        IF y.r = "ready"
        THEN Ctx([y.t EXCEPT !.status = "done"], y.chan, y.sent, "ready")
        ELSE y

\* A failed Join drops both of its futures, and with the status future the
\* tokio_process::Child: a child that is still running is killed.
drop_child(r) ==
    IF r = "failed" /\ child.state = "running"
    THEN [child EXCEPT !.state = "killed"]
    ELSE child

\* The task right after handle.spawn(stream).
TaskInit ==
    [state |-> "alive", pc |-> "forward",
     rd |-> [out |-> 0, err |-> 0], flag |-> FALSE, buffered |-> <<>>,
     fwd |-> "running", status |-> "waiting",
     parked |-> [tx1 |-> FALSE, tx2 |-> FALSE]]

\* Join::poll, first half: poll the forward; an error ends the task and
\* drops both futures (and both Senders).
PollForward ==
    /\ task.state = "alive"
    /\ task.pc = "forward"
    /\ \E y \in {forward_poll(Ctx(task, chan, sent, "ready"))} :
        /\ task' = IF y.r = "failed"
                   THEN [y.t EXCEPT !.state = "failed"]
                   ELSE [y.t EXCEPT !.pc = "status"]
        /\ chan' = y.chan
        /\ sent' = y.sent
        /\ child' = drop_child(y.r)
    /\ UNCHANGED <<rx_alive, s_pos, script, clientVars, codecVars, reqVars, libVars>>

\* Join::poll, second half: poll the status future; the task finishes when
\* both halves are done.
PollStatus ==
    /\ task.state = "alive"
    /\ task.pc = "status"
    /\ \E y \in {status_poll(Ctx(task, chan, sent, "ready"))} :
        /\ task' = IF y.r = "failed"
                   THEN [y.t EXCEPT !.state = "failed"]
                   ELSE IF y.t.fwd = "done" /\ y.t.status = "done"
                   THEN [y.t EXCEPT !.state = "finished"]
                   ELSE [y.t EXCEPT !.pc = "forward"]
        /\ chan' = y.chan
        /\ sent' = y.sent
        /\ child' = drop_child(y.r)
    /\ UNCHANGED <<rx_alive, s_pos, script, clientVars, codecVars, reqVars, libVars>>

\* The header of the message into_msg returns: Ok(()) as JSON, with body.
child_into_msg_header == JOk(SNull)

(***************************************************************************)
(* The agent's transport (tokio-proto's pipeline server over the codec):   *)
(* it writes the header, then a body frame per chunk it takes from the     *)
(* channel, then end-of-body once the channel is empty and closed.         *)
(***************************************************************************)
ServerWriteHeader ==
    /\ s_pos = "header"
    /\ s_pos' = "body"
    /\ c_wire' = encode(MessageFrame(child_into_msg_header, TRUE), c_wire)
    /\ UNCHANGED <<task, chan, sent, rx_alive>>
    /\ UNCHANGED <<childVars, clientVars, codecOnly, decoding_head, c_status, reqVars, libVars>>

\* Taking a message unparks the Sender that sent it.
ServerWriteChunk ==
    /\ s_pos = "body"
    /\ chan # <<>>
    /\ c_wire' = encode(BodyFrame(Head(chan).data), c_wire)
    /\ chan' = Tail(chan)
    /\ task' = [task EXCEPT
                   !.parked[IF Head(chan).src = "status" THEN "tx2" ELSE "tx1"] = FALSE]
    /\ UNCHANGED <<sent, rx_alive, s_pos>>
    /\ UNCHANGED <<childVars, clientVars, codecOnly, decoding_head, c_status, reqVars, libVars>>

\* Both Senders are dropped when the task ends; the stream then ends.
ServerWriteEnd ==
    /\ s_pos = "body"
    /\ chan = <<>>
    /\ task.state # "alive"
    /\ s_pos' = "ended"
    /\ c_wire' = encode(BodyEnd, c_wire)
    /\ UNCHANGED <<task, chan, sent, rx_alive>>
    /\ UNCHANGED <<childVars, clientVars, codecOnly, decoding_head, c_status, reqVars, libVars>>

\* The connection is lost: the transport drops the Body, the Receiver of the
\* channel; its messages are dropped and the parked Senders are woken.
ReceiverDrop ==
    /\ rx_alive
    /\ s_pos \in {"header", "body"}
    /\ rx_alive' = FALSE
    /\ s_pos' = "lost"
    /\ chan' = <<>>
    /\ task' = [task EXCEPT !.parked = [tx1 |-> FALSE, tx2 |-> FALSE]]
    /\ UNCHANGED sent
    /\ UNCHANGED <<childVars, clientVars, codecVars, reqVars, libVars>>

(***************************************************************************)
(* The Remote host: Plain::call and Child::from_msg.                       *)
(***************************************************************************)
CallResult(kind, value, text) == [kind |-> kind, value |-> value, text |-> text]

\* A mutant of call_decode: an {"Err": text} header is taken for a value.
call_decode_err_as_value(header) ==
    IF header.obj
    THEN CallResult("ok", header.v, <<>>)
    ELSE CallResult("decode_error", SNull, <<>>)

\* Service for Plain::call: the header is decoded as Result<Value, String>.
call_decode(header) ==
    IF header.obj /\ header.k = B_Ok
    THEN CallResult("ok", header.v, <<>>)
    ELSE IF header.obj /\ header.k = B_Err /\ header.v.t = "str"
    THEN CallResult("remote", SNull, header.v.s)
    ELSE CallResult("decode_error", SNull, <<>>)

\* What the transport's call resolves to: a message (header, optional body
\* stream) or an I/O error.
Body(some, chunks) == [some |-> some, chunks |-> chunks]

Response(st, header, body) == [st |-> st, header |-> header, body |-> body]

CallBodies ==
    {Body(FALSE, <<>>)} \cup {Body(TRUE, c) : c \in SeqsUpTo({B_a, B_e}, MaxChunks)}

Responses ==
    {Response("ok", h, b) : h \in ResponseHeaders, b \in CallBodies}
        \cup {Response("io_error", JBare(SNull), Body(FALSE, <<>>))}

\* What the request future resolves to: a message, or an error of kind Remote
\* (text) or Msg (msg).
CallOut(kind, header, body, text, msg) ==
    [kind |-> kind, header |-> header, body |-> body, text |-> text, msg |-> msg]

NoCallOut == CallOut("pending", SNull, Body(FALSE, <<>>), <<>>, "")

\* Service for Plain::call: chain_err on the transport's error, and_then
\* take_body, into_inner, the decoding of the header and the new Message.
plain_call(resp) ==
    IF resp.st # "ok"
    THEN CallOut("Msg", SNull, Body(FALSE, <<>>), <<>>,
                 "Error while running provider on host")
    ELSE LET d == call_decode(resp.header)
         IN  IF d.kind = "decode_error"
             THEN CallOut("Msg", SNull, Body(FALSE, <<>>), <<>>,
                          "Could not decode response from host")
             ELSE IF d.kind = "remote"
             THEN CallOut("Remote", SNull, Body(FALSE, <<>>), d.text, "")
             ELSE CallOut("ok", d.value, resp.body, <<>>, "")

\* The request future of Plain::call resolves.
CaCall ==
    /\ ca_pc = "called"
    /\ ca_out' = plain_call(ca_resp)
    /\ ca_pc' = "done"
    /\ UNCHANGED ca_resp
    /\ UNCHANGED exceptCa

StreamDropped == "Stream dropped before ExitStatus was sent"

RxPending == [st |-> "pending", v |-> ExitStatus(FALSE, FALSE, 0), msg |-> ""]

RxValue(s) == [st |-> "value", v |-> s, msg |-> ""]

RxError(msg) == [st |-> "error", v |-> ExitStatus(FALSE, FALSE, 0), msg |-> msg]

NoChild == [tx |-> "none", rx |-> RxPending]

\* A mutant of from_msg: the exit status is resolved when the Child is made.
from_msg_resolved_early == [tx |-> "open", rx |-> RxValue(ExitStatus(TRUE, TRUE, 0))]

\* Child::from_msg: oneshot::channel(); tx moves into the stream's filter,
\* rx (chained with the error text) is the exit-status future.
from_msg == [tx |-> "open", rx |-> RxPending]

\* A mutant of drop_stream: the oneshot Sender outlives the stream.
drop_stream_keeps_tx(ch) == ch

\* Dropping the stream drops the filter's closure and the Sender in it: an
\* unused Sender cancels the receiver.
drop_stream(ch) ==
    IF ch.tx = "open" THEN [tx |-> "dropped", rx |-> RxError(StreamDropped)] ELSE ch

FilterResult(res, line, pulled, ch) ==
    [res |-> res, line |-> line, pulled |-> pulled, ch |-> ch]

\* The chunk is a frame the filter takes for the exit status.
is_sentinel(v) ==
    LET s == from_utf8_lossy(v) IN
    starts_with(s, B_ExitStatus)
        /\ status_parses(SubSeq(s, Len(B_ExitStatus) + 1, Len(s)))

\* One poll of body.filter_map(..): chunks are pulled until one passes the
\* filter. tx.take().unwrap() panics when the Sender was used before.
RECURSIVE filter_map_poll(_, _)
filter_map_poll(pulled, ch) ==
    IF pulled < Len(cl_recv)
    THEN
        LET v == cl_recv[pulled + 1]
            s == from_utf8_lossy(v)
        IN
        IF is_sentinel(v)
        THEN IF ch.tx # "open"
             THEN FilterResult("panic", <<>>, pulled + 1, ch)
             ELSE filter_map_poll(pulled + 1,
                    [tx |-> "sent",
                     rx |-> RxValue(status_from_str(SubSeq(s, 12, Len(s))))])
        ELSE FilterResult("item", s, pulled + 1, ch)
    ELSE IF cl_body_state = "end" THEN FilterResult("none", <<>>, pulled, ch)
    ELSE IF cl_body_state = "error" THEN FilterResult("error", <<>>, pulled, ch)
    ELSE FilterResult("notready", <<>>, pulled, ch)

\* The task of the Remote host's transport decodes one frame and dispatches
\* it: a header completes the oneshot of the request in flight, a body frame
\* goes to the body of the message handed over.
ClientDecode ==
    /\ c_status = "ok"
    /\ LET r == decode(c_wire, decoding_head) IN
        /\ r.res # "none"
        /\ c_wire' = r.buf
        /\ decoding_head' = r.head
        /\ IF r.res # "frame"
           THEN /\ c_status' = r.res
                /\ cl_call' = IF cl_call = "waiting" THEN "io_error" ELSE cl_call
                /\ cl_body_state' =
                        IF /\ cl_body_state = "open"
                           /\ \/ cl_call = "child"
                              \/ (cl_call = "received" /\ cl_msg.body)
                        THEN "error" ELSE cl_body_state
                /\ UNCHANGED <<cl_msg, cl_recv>>
           ELSE IF r.frame.kind = "Message"
           THEN IF cl_call # "waiting"
                THEN /\ c_status' = "error"
                     /\ UNCHANGED <<cl_call, cl_msg, cl_recv, cl_body_state>>
                ELSE /\ cl_call' = "received"
                     /\ cl_msg' = r.frame
                     /\ UNCHANGED <<c_status, cl_recv, cl_body_state>>
           ELSE /\ cl_recv' = IF r.frame.some THEN Append(cl_recv, r.frame.chunk)
                              ELSE cl_recv
                /\ cl_body_state' = IF r.frame.some THEN cl_body_state ELSE "end"
                /\ UNCHANGED <<c_status, cl_call, cl_msg>>
    /\ UNCHANGED <<cl_child, cons, cl_pulled, cl_lines>>
    /\ UNCHANGED <<childVars, agentVars, codecOnly, reqVars, libVars>>

\* The caller's task is polled with its oneshot complete: the closure of
\* Plain::call decodes the header, and Plain::request makes the Child of
\* the message with Child::from_msg.
ClientResolve ==
    /\ cl_call = "received"
    /\ LET d == call_decode(cl_msg.message) IN
        /\ cl_call' = IF d.kind # "ok" THEN d.kind
                      ELSE IF cl_msg.body THEN "child" ELSE "panic"
        /\ cl_child' = IF d.kind = "ok" /\ cl_msg.body THEN from_msg ELSE cl_child
        /\ cons' = IF d.kind = "ok" /\ cl_msg.body THEN "holding" ELSE cons
    /\ UNCHANGED <<cl_msg, cl_recv, cl_body_state, cl_pulled, cl_lines>>
    /\ UNCHANGED <<childVars, agentVars, codecVars, reqVars, libVars>>

\* The consumer polls the stream it took from the Child (for_each): a line
\* is yielded, or the stream ends or fails and is dropped.
ConsumerPoll ==
    /\ cons = "holding"
    /\ LET r == filter_map_poll(cl_pulled, cl_child) IN
        /\ cl_pulled' = r.pulled
        /\ cl_lines' = IF r.res = "item" THEN Append(cl_lines, r.line) ELSE cl_lines
        /\ cons' = CASE r.res = "none"  -> "drained"
                     [] r.res = "error" -> "failed"
                     [] r.res = "panic" -> "panicked"
                     [] OTHER           -> cons
        /\ cl_child' = IF r.res \in {"none", "error"} THEN drop_stream(r.ch) ELSE r.ch
    /\ UNCHANGED <<cl_call, cl_msg, cl_recv, cl_body_state>>
    /\ UNCHANGED <<childVars, agentVars, codecVars, reqVars, libVars>>

\* The consumer drops the stream without reading it to its end.
ConsumerDrop ==
    /\ cons = "holding"
    /\ cons' = "dropped"
    /\ cl_child' = drop_stream(cl_child)
    /\ UNCHANGED <<cl_call, cl_msg, cl_recv, cl_body_state, cl_pulled, cl_lines>>
    /\ UNCHANGED <<childVars, agentVars, codecVars, reqVars, libVars>>

\* stream.for_each(|_| Ok(())): the lines are pulled and thrown away.
RECURSIVE for_each_poll(_, _)
for_each_poll(pulled, ch) ==
    LET r == filter_map_poll(pulled, ch) IN
    IF r.res = "item" THEN for_each_poll(r.pulled, r.ch) ELSE r

\* Future for Child::poll on the Remote host: the first poll takes the stream
\* and joins its for_each with the exit-status future; the Join is ready when
\* the stream has ended, which drops it, and the receiver of the oneshot
\* has its value.
ChildPoll ==
    /\ cons \in {"holding", "joined"}
    /\ \E r \in {for_each_poll(cl_pulled, cl_child)} :
        /\ cl_pulled' = r.pulled
        /\ cl_child' = IF r.res \in {"none", "error"} THEN drop_stream(r.ch) ELSE r.ch
        /\ cons' = CASE r.res = "none"  -> IF drop_stream(r.ch).rx.st = "value"
                                           THEN "resolved" ELSE "failed"
                     [] r.res = "error" -> "failed"
                     [] r.res = "panic" -> "panicked"
                     [] OTHER           -> "joined"
    /\ UNCHANGED <<cl_call, cl_msg, cl_recv, cl_body_state, cl_lines>>
    /\ UNCHANGED <<childVars, agentVars, codecVars, reqVars, libVars>>

(***************************************************************************)
(* The request path: Plain::request on the Remote host, Api::call on the   *)
(* agent, Local::request on a Local host.                                  *)
(***************************************************************************)
\* #[response = ".."] of each request struct. ServiceEnable and
\* ServiceDisable respond with (), whose message conversions are not part
\* of this source tree; the model issues the other eight variants.
response_type(k) ==
    IF k \in {K_CommandExec, K_PackageInstall, K_PackageUninstall, K_ServiceAction}
    THEN "Child"
    ELSE IF k \in {K_PackageInstalled, K_ServiceRunning, K_ServiceEnabled}
    THEN "bool"
    ELSE IF k = K_TelemetryLoad THEN "Telemetry"
    ELSE "unit"

IssuedKeys == {k \in KnownKeys : response_type(k) # "unit"}

\* How the provider call of a request goes on the target machine: it
\* fails, or it succeeds (for a bool response, with value b).
Outcome(ok, b) == [ok |-> ok, b |-> b]

ExecOutcomes(k) ==
    IF response_type(k) = "bool"
    THEN {Outcome(TRUE, TRUE), Outcome(TRUE, FALSE), Outcome(FALSE, FALSE)}
    ELSE {Outcome(TRUE, FALSE), Outcome(FALSE, FALSE)}

\* A request on the wire with the outcome its execution would have.
Req(header, outcome) == [header |-> header, outcome |-> outcome]

Requests ==
    UNION {{Req(JTagged(k, payload_of(k)), o) : o \in ExecOutcomes(k)} : k \in IssuedKeys}
        \cup {Req(JTagged(K_NoSuchVariant, SNull), Outcome(FALSE, FALSE)),
              Req(JTagged(K_PackageInstalled, SNull), Outcome(FALSE, FALSE))}

FromMsgResult(ok, k, req) == [ok |-> ok, k |-> k, req |-> req]

NoRequest == TRequest(<<>>, <<>>, <<>>, <<>>)

\* The value of the key in the object: some is FALSE when it has none.
map_get(m, key) ==
    IF \E i \in 1..Len(m.k) : m.k[i] = key
    THEN [some |-> TRUE, v |-> m.e[CHOOSE i \in 1..Len(m.k) : m.k[i] = key]]
    ELSE [some |-> FALSE, v |-> SNull]

FieldValues(ok, vals) == [ok |-> ok, vals |-> vals]

\* The derived Deserialize of a struct with named fields on a Value: from
\* an object it takes the fields by name, ignores any other key and fails
\* on a missing field; from an array it takes the fields by position and
\* fails on any other length; it fails on every other value.
struct_field_values(k, v) ==
    LET fs == struct_fields(k) IN
    IF v.t = "map"
    THEN (IF \A i \in 1..Len(fs) : map_get(v, fs[i]).some
          THEN FieldValues(TRUE, [i \in 1..Len(fs) |-> map_get(v, fs[i]).v])
          ELSE FieldValues(FALSE, <<>>))
    ELSE IF v.t = "arr" /\ Len(v.e) = Len(fs) THEN FieldValues(TRUE, v.e)
    ELSE FieldValues(FALSE, <<>>)

\* The value is an array of strings (Vec<String>).
is_strings(v) == v.t = "arr" /\ \A i \in 1..Len(v.e) : v.e[i].t = "str"

\* The derived FromMessage of the variant's struct: serde_json::from_value
\* of the payload. The unit struct TelemetryLoad takes null only.
struct_from_value(k, v) ==
    LET f == struct_field_values(k, v) IN
    IF k = K_TelemetryLoad
    THEN (IF v.t = "null"
          THEN FromMsgResult(TRUE, k, TRequest(k, <<>>, <<>>, <<>>))
          ELSE FromMsgResult(FALSE, <<>>, NoRequest))
    ELSE IF ~f.ok THEN FromMsgResult(FALSE, <<>>, NoRequest)
    ELSE IF k = K_CommandExec
    THEN (IF is_strings(f.vals[1])
          THEN FromMsgResult(TRUE, k,
                   TRequest(k, <<>>, <<>>,
                            [i \in 1..Len(f.vals[1].e) |-> f.vals[1].e[i].s]))
          ELSE FromMsgResult(FALSE, <<>>, NoRequest))
    ELSE IF k = K_ServiceAction
    THEN (IF f.vals[1].t = "str" /\ f.vals[2].t = "str"
          THEN FromMsgResult(TRUE, k, TRequest(k, f.vals[1].s, f.vals[2].s, <<>>))
          ELSE FromMsgResult(FALSE, <<>>, NoRequest))
    ELSE (IF f.vals[1].t = "str"
          THEN FromMsgResult(TRUE, k, TRequest(k, f.vals[1].s, <<>>, <<>>))
          ELSE FromMsgResult(FALSE, <<>>, NoRequest))

\* A mutant of request_from_msg: the match arm of PackageInstall builds a
\* PackageInstalled.
request_from_msg_wrong_arm(header) ==
    IF header.obj /\ header.k \in KnownKeys
    THEN struct_from_value(IF header.k = K_PackageInstall
                           THEN K_PackageInstalled ELSE header.k, header.v)
    ELSE FromMsgResult(FALSE, <<>>, NoRequest)

\* Request::from_msg: the header must be an object whose one key names a
\* variant (RequestValues), and its payload must deserialize into the
\* struct of that variant.
request_from_msg(header) ==
    IF header.obj /\ header.k \in KnownKeys
    THEN struct_from_value(header.k, header.v)
    ELSE FromMsgResult(FALSE, <<>>, NoRequest)

\* The request parses (a typed client can only build such requests).
WellFormed(req) == request_from_msg(req.header).ok

\* The display chain of "Malformed Request" and its cause: two lines.
MalformedChain == B_a_nl_b

\* error_to_msg: Err(display chain) as JSON, without body.
error_to_msg(text) == MessageFrame(JErr(text), FALSE)

\* IntoMessage for bool.
bool_into_msg(b) == MessageFrame(JBare(SBool(b)), FALSE)

\* IntoMessage for Telemetry.
telemetry_into_msg == MessageFrame(JBare(TelemetryValue), FALSE)

\* The exit status of the command the request specification runs.
ReqStatus == ExitStatus(TRUE, TRUE, 0)

\* The body IntoMessage for Child streams for a child that prints "a" and
\* exits with code 0.
ReqChildBody == <<BodyFrame(B_a), BodyFrame(sentinel_frame(ReqStatus)), BodyEnd>>

\* IntoMessage for (): a message without body (the envelope of the unit
\* value, taken from the specification of the protocol).
unit_into_msg == MessageFrame(JOk(SNull), FALSE)

\* A mutant of response_into_msg: the Child's header goes without a body.
response_into_msg_no_body(k, outcome) ==
    IF response_type(k) = "bool" THEN bool_into_msg(outcome.b)
    ELSE IF response_type(k) = "Child" THEN MessageFrame(child_into_msg_header, FALSE)
    ELSE IF response_type(k) = "unit" THEN unit_into_msg
    ELSE telemetry_into_msg

\* reqexec!: res.into_msg(handle) for the response type of the variant.
response_into_msg(k, outcome) ==
    IF response_type(k) = "bool" THEN bool_into_msg(outcome.b)
    ELSE IF response_type(k) = "Child" THEN MessageFrame(child_into_msg_header, TRUE)
    ELSE IF response_type(k) = "unit" THEN unit_into_msg
    ELSE telemetry_into_msg

SvcResult(executed, res, frame, body) ==
    [executed |-> executed, res |-> res, frame |-> frame, body |-> body]

\* Service for Api::call: res is how the returned future completes.
api_call(header, outcome) ==
    LET r == request_from_msg(header) IN
    IF ~r.ok
    THEN SvcResult(FALSE, "ok", error_to_msg(MalformedChain), <<>>)
    ELSE IF ~outcome.ok
    THEN SvcResult(TRUE, "error", MessageFrame(JBare(SNull), FALSE), <<>>)
    ELSE SvcResult(TRUE, "ok", response_into_msg(r.k, outcome),
                   IF response_type(r.k) = "Child" THEN ReqChildBody ELSE <<>>)

\* The typed result of Host::request.
Typed(kind, b, lines, status, done, why) ==
    [kind |-> kind, b |-> b, lines |-> lines, status |-> status,
     done |-> done, why |-> why]

TypedError(why) == Typed("error", FALSE, <<>>, RxPending, TRUE, why)

\* Local::request: request.exec(self).
local_request(req) ==
    LET k == req.header.k IN
    IF ~req.outcome.ok THEN TypedError("exec")
    ELSE IF response_type(k) = "bool"
    THEN Typed("bool", req.outcome.b, <<>>, RxPending, TRUE, "")
    ELSE IF response_type(k) = "Child"
    THEN Typed("Child", FALSE, <<B_a>>, RxValue(ReqStatus), TRUE, "")
    ELSE Typed("Telemetry", FALSE, <<>>, RxPending, TRUE, "")

\* Plain::request after call: R::Response::from_msg on the decoded header.
response_from_msg(k, frame) ==
    LET d == call_decode(frame.message) IN
    IF d.kind # "ok" THEN TypedError(d.kind)
    ELSE IF response_type(k) = "bool"
    THEN (IF d.value.t = "bool"
          THEN Typed("bool", d.value.b, <<>>, RxPending, TRUE, "")
          ELSE TypedError("Non-boolean message received"))
    ELSE IF response_type(k) = "Child"
    THEN (IF frame.body
          THEN Typed("Child", FALSE, <<>>, RxPending, FALSE, "")
          ELSE TypedError("panic"))
    ELSE (IF d.value.t = "map"
          THEN Typed("Telemetry", FALSE, <<>>, RxPending, TRUE, "")
          ELSE TypedError("Could not deserialize Telemetry"))

\* A body frame reaches the Child the Remote host handed out, whose stream
\* the caller drains.
child_body_frame(res, frame) ==
    IF ~frame.some
    THEN [res EXCEPT !.done = TRUE,
                     !.status = IF @ = RxPending THEN RxError(StreamDropped) ELSE @]
    ELSE IF is_sentinel(frame.chunk)
    THEN (IF res.status # RxPending
          THEN TypedError("panic")
          ELSE [res EXCEPT !.status =
                   RxValue(status_from_str(SubSeq(from_utf8_lossy(frame.chunk), 12,
                                                   Len(from_utf8_lossy(frame.chunk)))))])
    ELSE [res EXCEPT !.lines = Append(@, from_utf8_lossy(frame.chunk))]

\* The two results are the same typed result.
SameTyped(x, y) ==
    /\ x.kind = y.kind
    /\ x.b = y.b
    /\ x.lines = y.lines
    /\ x.status = y.status

\* Plain::request: the request is written as a message without body. The
\* caller issues each request on the Remote host, then on the Local host.
ClientRequest ==
    /\ q_conn = "open"
    /\ q_idx < Len(q_reqs)
    /\ Len(q_local) >= q_idx
    /\ q_idx' = q_idx + 1
    /\ q_up' = encode(MessageFrame(q_reqs[q_idx + 1].header, FALSE), q_up)
    /\ UNCHANGED <<q_reqs, q_srv_head, q_conn, q_svc, q_out, q_wrote, q_wbuf, q_ready,
                   q_body, q_down, q_cl_head, q_got, q_pend, q_remote, q_local>>
    /\ UNCHANGED <<codecVars, cmdVars, libVars>>

\* The future Api::call returns is complete when it is returned: a
\* malformed request is answered with future::ok, and the requests that
\* respond with a Child are FutureResults (#[future = "FutureResult<..>"]).
\* The other requests wait for a process to end.
ready_at_call(header) ==
    LET r == request_from_msg(header) IN
    ~r.ok \/ response_type(r.k) = "Child"

\* The write buffer of the agent's Framed transport: the bytes encode has
\* put there and the frames they are.
WBuf(bytes, frames) == [bytes |-> bytes, frames |-> frames]

NoWBuf == WBuf(<<>>, <<>>)

\* The agent's transport decodes a request and the service is called; the
\* response future joins the responses in flight. Requests are dispatched
\* while earlier responses are still being written. A decode error ends
\* the connection's task, and what is in the write buffer goes with it.
AgentCall ==
    /\ q_conn = "open"
    /\ LET r == decode(q_up, q_srv_head) IN
        /\ r.res # "none"
        /\ q_up' = r.buf
        /\ q_srv_head' = r.head
        /\ IF r.res # "frame" \/ r.frame.kind # "Message"
           THEN /\ q_conn' = "closed"
                /\ q_wbuf' = NoWBuf
                /\ UNCHANGED <<q_svc, q_ready>>
           ELSE /\ q_svc' = Append(q_svc, api_call(r.frame.message,
                                                   q_reqs[Len(q_svc) + 1].outcome))
                /\ q_ready' = IF ready_at_call(r.frame.message)
                              THEN q_ready \cup {Len(q_svc) + 1} ELSE q_ready
                /\ UNCHANGED <<q_conn, q_wbuf>>
    /\ UNCHANGED <<q_reqs, q_idx, q_out, q_wrote, q_body, q_down, q_cl_head, q_got,
                   q_pend, q_remote, q_local>>
    /\ UNCHANGED <<codecVars, cmdVars, libVars>>

\* The process a response in flight waits for has ended: its future is
\* complete. The futures complete in any order.
AgentReady(i) ==
    /\ q_conn = "open"
    /\ i <= Len(q_svc)
    /\ i \notin q_ready
    /\ q_ready' = q_ready \cup {i}
    /\ UNCHANGED <<q_reqs, q_idx, q_up, q_srv_head, q_conn, q_svc, q_out, q_wrote,
                   q_wbuf, q_body, q_down, q_cl_head, q_got, q_pend, q_remote,
                   q_local>>
    /\ UNCHANGED <<codecVars, cmdVars, libVars>>

\* A frame written by the agent, for the response of request i.
Wrote(i, frame) == [i |-> i, frame |-> frame]

\* A mutant of out_body_done: the next response is taken up at any time.
out_body_ignored(body) == TRUE

\* The pipeline takes up the next response only when the body of the one
\* before it has been written to its end.
out_body_done(body) == body = <<>>

\* The agent's transport takes up the oldest response in flight, once its
\* future is complete, and encodes its header into the write buffer. A
\* service error becomes Frame::Error, which encode refuses: the
\* connection's task ends with nothing written for that request, and the
\* frames in the write buffer that were not flushed are lost.
AgentRespond ==
    /\ q_conn = "open"
    /\ out_body_done(q_body)
    /\ q_out < Len(q_svc)
    /\ (q_out + 1) \in q_ready
    /\ q_out' = q_out + 1
    /\ LET s == q_svc[q_out + 1] IN
        IF s.res = "ok"
        THEN /\ q_wbuf' = WBuf(encode(s.frame, q_wbuf.bytes),
                               Append(q_wbuf.frames, Wrote(q_out + 1, s.frame)))
             /\ q_body' = s.body
             /\ UNCHANGED q_conn
        ELSE /\ q_conn' = "closed"
             /\ q_wbuf' = NoWBuf
             /\ UNCHANGED q_body
    /\ UNCHANGED <<q_reqs, q_idx, q_up, q_srv_head, q_svc, q_wrote, q_ready, q_down,
                   q_cl_head, q_got, q_pend, q_remote, q_local>>
    /\ UNCHANGED <<codecVars, cmdVars, libVars>>

\* The agent's transport encodes the next body frame of the response into
\* the write buffer.
AgentWriteBody ==
    /\ q_conn = "open"
    /\ q_body # <<>>
    /\ q_wbuf' = WBuf(encode(Head(q_body), q_wbuf.bytes),
                      Append(q_wbuf.frames, Wrote(q_out, Head(q_body))))
    /\ q_body' = Tail(q_body)
    /\ UNCHANGED <<q_reqs, q_idx, q_up, q_srv_head, q_conn, q_svc, q_out, q_wrote,
                   q_ready, q_down, q_cl_head, q_got, q_pend, q_remote, q_local>>
    /\ UNCHANGED <<codecVars, cmdVars, libVars>>

\* The agent's transport flushes its write buffer: the frames in it are on
\* the connection.
AgentFlush ==
    /\ q_conn = "open"
    /\ q_wbuf # NoWBuf
    /\ q_down' = q_down \o q_wbuf.bytes
    /\ q_wrote' = q_wrote \o q_wbuf.frames
    /\ q_wbuf' = NoWBuf
    /\ UNCHANGED <<q_reqs, q_idx, q_up, q_srv_head, q_conn, q_svc, q_out, q_ready,
                   q_body, q_cl_head, q_got, q_pend, q_remote, q_local>>
    /\ UNCHANGED <<codecVars, cmdVars, libVars>>

\* A response handed to the oneshot of its request, with the frames of its
\* body that have arrived since.
Handed(frame, body) == [frame |-> frame, body |-> body]

\* What one poll of the Child's stream leaves: the result and the frames
\* still in the Body.
Polled(res, frames) == [res |-> res, frames |-> frames]

\* One poll of the stream of a Child, body.filter_map(..): frames are taken
\* from the Body until a line passes the filter, the body ends, the filter
\* panics, or the Body has no frame left.
RECURSIVE child_poll(_, _)
child_poll(res, frames) ==
    IF frames = <<>> THEN Polled(res, frames)
    ELSE LET next == child_body_frame(res, Head(frames)) IN
         IF Head(frames).some /\ is_sentinel(Head(frames).chunk) /\ ~next.done
         THEN child_poll(next, Tail(frames))
         ELSE Polled(next, Tail(frames))

\* The task of the client's transport decodes a frame: a header completes
\* the oneshot of the oldest request in flight, a body frame goes into the
\* Body of the last response.
ClientResponse ==
    /\ LET r == decode(q_down, q_cl_head)
           n == Len(q_remote) + Len(q_got)
       IN
        /\ r.res = "frame"
        /\ q_down' = r.buf
        /\ q_cl_head' = r.head
        /\ IF r.frame.kind = "Message"
           THEN /\ n < q_idx
                /\ q_got' = Append(q_got, Handed(r.frame, <<>>))
                /\ UNCHANGED q_pend
           ELSE /\ n > 0
                /\ IF q_got # <<>>
                   THEN /\ q_got' = [q_got EXCEPT ![Len(q_got)].body = Append(@, r.frame)]
                        /\ UNCHANGED q_pend
                   ELSE /\ q_pend' = [q_pend EXCEPT ![Len(q_pend)] = Append(@, r.frame)]
                        /\ UNCHANGED q_got
    /\ UNCHANGED <<q_reqs, q_idx, q_up, q_srv_head, q_conn, q_svc, q_out, q_wrote,
                   q_wbuf, q_ready, q_body, q_remote, q_local>>
    /\ UNCHANGED <<codecVars, cmdVars, libVars>>

\* The caller's task is polled with the oneshot of its oldest unresolved
\* request complete: the closure of Plain::call and R::Response::from_msg
\* run on the message handed over; the Body goes with the result.
ClientResult ==
    /\ q_got # <<>>
    /\ q_remote' = Append(q_remote,
            response_from_msg(q_reqs[Len(q_remote) + 1].header.k, Head(q_got).frame))
    /\ q_pend' = Append(q_pend, Head(q_got).body)
    /\ q_got' = Tail(q_got)
    /\ UNCHANGED <<q_reqs, q_idx, q_up, q_srv_head, q_conn, q_svc, q_out, q_wrote,
                   q_wbuf, q_ready, q_body, q_down, q_cl_head, q_local>>
    /\ UNCHANGED <<codecVars, cmdVars, libVars>>

\* The caller's task polls the stream of a Child it was handed: the filter
\* of Child::from_msg runs on the frames that are in the Body.
ClientPoll(i) ==
    /\ i <= Len(q_remote)
    /\ ~q_remote[i].done
    /\ q_pend[i] # <<>>
    /\ \E y \in {child_poll(q_remote[i], q_pend[i])} :
        /\ q_remote' = [q_remote EXCEPT ![i] = y.res]
        /\ q_pend' = [q_pend EXCEPT ![i] = y.frames]
    /\ UNCHANGED <<q_reqs, q_idx, q_up, q_srv_head, q_conn, q_svc, q_out, q_wrote,
                   q_wbuf, q_ready, q_body, q_down, q_cl_head, q_got, q_local>>
    /\ UNCHANGED <<codecVars, cmdVars, libVars>>

\* The Body of a Child whose end-of-stream frame has not arrived.
body_open(res, frames) ==
    /\ res.kind = "Child"
    /\ ~res.done
    /\ \A j \in 1..Len(frames) : frames[j].some

\* The task of the client's transport ends and drops the Sender of every
\* Body: a Body that was still open yields the frames it holds and then
\* ends, as it does after an end-of-stream frame.
bodies_lost(remote, pend) ==
    [i \in 1..Len(pend) |->
        IF body_open(remote[i], pend[i]) THEN Append(pend[i], BodyEnd) ELSE pend[i]]

\* The connection was closed by the agent and all it wrote was read: the
\* request in flight fails, and so does every later one; the body in
\* flight ends with the connection.
ReqConnLost ==
    /\ q_conn = "closed"
    /\ decode(q_down, q_cl_head).res = "none"
    /\ q_got = <<>>
    /\ Len(q_remote) < Len(q_reqs)
    /\ q_remote' = Append(q_remote, TypedError("io"))
    /\ q_pend' = Append(bodies_lost(q_remote, q_pend), <<>>)
    /\ q_idx' = IF q_idx < Len(q_remote') THEN Len(q_remote') ELSE q_idx
    /\ UNCHANGED <<q_reqs, q_up, q_srv_head, q_conn, q_svc, q_out, q_wrote, q_wbuf,
                   q_ready, q_body, q_down, q_cl_head, q_got, q_local>>
    /\ UNCHANGED <<codecVars, cmdVars, libVars>>

\* The same request is issued through a Local host on the agent's machine.
LocalRequest ==
    /\ Len(q_local) < Len(q_reqs)
    /\ Len(q_local) < q_idx
    /\ q_local' = Append(q_local, local_request(q_reqs[Len(q_local) + 1]))
    /\ UNCHANGED <<q_reqs, q_idx, q_up, q_srv_head, q_conn, q_svc, q_out, q_wrote,
                   q_wbuf, q_ready, q_body, q_down, q_cl_head, q_got, q_pend, q_remote>>
    /\ UNCHANGED <<codecVars, cmdVars, libVars>>

(***************************************************************************)
(* The round trip of a Request: into_msg on the Remote host, the codec,    *)
(* from_msg on the agent.                                                  *)
(***************************************************************************)
\* IntoMessage for Request: the value of the request, without body.
request_into_msg(R) == MessageFrame(request_to_value(R), FALSE)

NoBack == FromMsgResult(FALSE, <<>>, NoRequest)

NoResp == SvcResult(FALSE, "none", BodyEnd, <<>>)

\* A request document with the payload as another client writes it.
peer_doc(k, payload) == <<123>> \o json_string(k) \o <<58>> \o payload \o <<125>>

\* Requests written by a peer that is not this library: the fields of
\* ServiceAction in the order of the struct, {"name":"n","action":"start"};
\* a field the struct does not have, {"name":"n","x":1}; the struct as an
\* array, ["n"]; no field, {}; a string where the array is due,
\* {"cmd":"c"}.
PeerDocs ==
    {peer_doc(K_ServiceAction,
              <<123>> \o json_string(B_name) \o <<58>> \o json_string(B_n) \o <<44>>
                  \o json_string(B_action) \o <<58>> \o json_string(B_start) \o <<125>>),
     peer_doc(K_PackageInstalled,
              <<123>> \o json_string(B_name) \o <<58>> \o json_string(B_n) \o <<44>>
                  \o json_string(<<120>>) \o <<58, 49, 125>>),
     peer_doc(K_PackageInstalled, <<91>> \o json_string(B_n) \o <<93>>),
     peer_doc(K_PackageInstalled, <<123, 125>>),
     peer_doc(K_CommandExec,
              <<123>> \o json_string(B_cmd) \o <<58>> \o json_string(B_c) \o <<125>>)}

\* The agent receives the header line of such a peer.
RtPeerWrite ==
    /\ rt_pc = "new"
    /\ \E doc \in PeerDocs : rt_wire' = doc \o <<FlagNoBody, NL>>
    /\ rt_req' = NoRequest
    /\ rt_pc' = "wire"
    /\ UNCHANGED <<rt_msg, rt_back, rt_resp>>
    /\ UNCHANGED <<codecVars, cmdVars, reqVars, afterRt>>

RtIntoMsg ==
    /\ rt_pc = "new"
    /\ rt_msg' = request_into_msg(rt_req)
    /\ rt_pc' = "msg"
    /\ UNCHANGED <<rt_req, rt_wire, rt_back, rt_resp>>
    /\ UNCHANGED <<codecVars, cmdVars, reqVars, afterRt>>

RtEncode ==
    /\ rt_pc = "msg"
    /\ rt_wire' = encode(rt_msg, <<>>)
    /\ rt_pc' = "wire"
    /\ UNCHANGED <<rt_req, rt_msg, rt_back, rt_resp>>
    /\ UNCHANGED <<codecVars, cmdVars, reqVars, afterRt>>

RtDecode ==
    /\ rt_pc = "wire"
    /\ LET r == decode(rt_wire, TRUE) IN
        /\ rt_wire' = r.buf
        /\ rt_msg' = r.frame
        /\ rt_pc' = IF r.res = "frame" /\ r.frame.kind = "Message"
                    THEN "read" ELSE "failed"
    /\ UNCHANGED <<rt_req, rt_back, rt_resp>>
    /\ UNCHANGED <<codecVars, cmdVars, reqVars, afterRt>>

RtFromMsg ==
    /\ rt_pc = "read"
    /\ rt_back' = request_from_msg(rt_msg.message)
    /\ rt_pc' = IF rt_req = NoRequest THEN "parsed" ELSE "done"
    /\ UNCHANGED <<rt_req, rt_msg, rt_wire, rt_resp>>
    /\ UNCHANGED <<codecVars, cmdVars, reqVars, afterRt>>

\* Api::call on the decoded message, the provider call going as `outcome`.
RtCall ==
    /\ rt_pc = "done"
    /\ \E outcome \in ExecOutcomes(rt_req.k) :
           rt_resp' = api_call(rt_msg.message, outcome)
    /\ rt_pc' = "answered"
    /\ UNCHANGED <<rt_req, rt_msg, rt_wire, rt_back>>
    /\ UNCHANGED <<codecVars, cmdVars, reqVars, afterRt>>

(***************************************************************************)
(* The idempotence wrappers of the client library (core/src/package/mod.rs *)
(* and core/src/service/mod.rs) over a target machine with a package       *)
(* database.                                                               *)
(***************************************************************************)
\* The number of calls the caller makes.
MaxCalls == 2

B_ba == <<98, 97>>

B_a_plus == <<97, 43>>

B_stop == <<115, 116, 111, 112>>

B_restart == <<114, 101, 115, 116, 97, 114, 116>>

\* The names of the packages of the machine, and those the caller asks for.
PkgNames == {B_a, B_ba, B_a_plus}

CalledNames == {B_a, B_a_plus}

Verbs == {B_start, B_stop, B_restart}

\* Regex::is_match for a pattern of literal bytes, each optionally followed
\* by `+` (one or more), against the whole of str.
RECURSIVE regex_full_match(_, _)
regex_full_match(pat, str) ==
    IF pat = <<>> THEN str = <<>>
    ELSE IF str = <<>> \/ str[1] # pat[1] THEN FALSE
    ELSE IF Len(pat) >= 2 /\ pat[2] = 43
    THEN \/ regex_full_match(pat, Tail(str))
         \/ regex_full_match(SubSeq(pat, 3, Len(pat)), Tail(str))
    ELSE regex_full_match(Tail(pat), Tail(str))

\* The regex "(?m){name}\s+install$" on the line dpkg prints for package
\* p ("p<TAB>install"): the name's part is not anchored at the start of the
\* line and ends where the white space begins.
apt_line_matches(name, p) ==
    \E i \in 1..(Len(p) + 1) : regex_full_match(name, SubSeq(p, i, Len(p)))

\* Apt::installed on a machine whose installed packages are db.
apt_installed(name, db) == \E p \in db : apt_line_matches(name, p)

\* Pkg::installed: the exit status of `pkg query "%n" name`.
pkg_installed(name, db) == name \in db

PackageProviders == {"Apt", "Pkg"}

provider_installed(prov, name, db) ==
    IF prov = "Apt" THEN apt_installed(name, db) ELSE pkg_installed(name, db)

\* A call of the client library.
Call(fn, name, action) == [fn |-> fn, name |-> name, action |-> action]

NoCall == Call("none", <<>>, <<>>)

PackageCalls ==
    {Call(fn, n, <<>>) : fn \in {"installed", "install", "uninstall"}, n \in CalledNames}

ServiceCalls ==
    {Call(fn, B_n, <<>>) : fn \in {"running", "enabled", "enable", "disable"}}
        \cup {Call("action", B_n, v) : v \in Verbs}

\* What the closure given to and_then decides: no request, or one request.
Skip == [issue |-> FALSE, k |-> <<>>]

Issue(k) == [issue |-> TRUE, k |-> k]

\* A mutant of package_install: no request is ever issued.
package_install_never(installed) == Skip

\* A mutant of package_install: the check is ignored.
package_install_always(installed) == Issue(K_PackageInstall)

\* Package::install, the closure over the result of installed().
package_install(installed) ==
    IF installed THEN Skip ELSE Issue(K_PackageInstall)

\* Package::uninstall, the closure over the result of installed().
package_uninstall(installed) ==
    IF installed THEN Issue(K_PackageUninstall) ELSE Skip

\* Service::action: only start and stop check running() first.
action_checks(action) == action = B_start \/ action = B_stop

\* A mutant of service_action: stop is treated as start.
service_action_as_start(running, action) ==
    IF running THEN Skip ELSE Issue(K_ServiceAction)

\* Service::action, the closure over the result of running().
service_action(running, action) ==
    IF (running /\ action = B_start) \/ (~running /\ action = B_stop)
    THEN Skip
    ELSE Issue(K_ServiceAction)

\* A mutant of service_enable: the check is ignored.
service_enable_always(enabled) == Issue(K_ServiceEnable)

\* Service::enable, the closure over the result of enabled().
service_enable(enabled) ==
    IF enabled THEN Skip ELSE Issue(K_ServiceEnable)

\* Service::disable, the closure over the result of enabled().
service_disable(enabled) ==
    IF enabled THEN Issue(K_ServiceDisable) ELSE Skip

\* The request a call makes first.
first_request(call) ==
    IF call.fn \in {"installed", "install", "uninstall"} THEN Issue(K_PackageInstalled)
    ELSE IF call.fn = "running" THEN Issue(K_ServiceRunning)
    ELSE IF call.fn = "action"
    THEN (IF action_checks(call.action)
          THEN Issue(K_ServiceRunning) ELSE Issue(K_ServiceAction))
    ELSE Issue(K_ServiceEnabled)

\* The and_then closure of the call, given what its check resolved to.
and_then(call, checked) ==
    IF call.fn = "install" THEN package_install(checked)
    ELSE IF call.fn = "uninstall" THEN package_uninstall(checked)
    ELSE IF call.fn = "action" THEN service_action(checked, call.action)
    ELSE IF call.fn = "enable" THEN service_enable(checked)
    ELSE service_disable(checked)

IsCheck(k) == k \in {K_PackageInstalled, K_ServiceRunning, K_ServiceEnabled}

\* What a check can resolve to on the machine: the provider's answer, or
\* an error of the provider's command or of the request.
CheckResults(call, prov, db) ==
    IF call.fn \in {"installed", "install", "uninstall"}
    THEN {IF provider_installed(prov, call.name, db) THEN "true" ELSE "false", "error"}
    ELSE {"true", "false", "error"}

\* One link of an error chain: Request { endpoint, func }, Remote(text) or
\* a message.
ErrKind(kind, endpoint, func, text) ==
    [kind |-> kind, endpoint |-> endpoint, func |-> func, text |-> text]

\* No error: the empty chain.
NoError == <<>>

\* The errors host.request fails with: Remote(text) of the agent, or the
\* transport's error under Plain::call's message.
RequestErrors ==
    {<<ErrKind("Remote", "", "", "a")>>,
     <<ErrKind("Msg", "", "", "Error while running provider on host"),
       ErrKind("Io", "", "", "broken pipe")>>}

\* chain_err(|| kind): kind becomes the head of the chain, e its cause.
chain_err(kind, e) == <<kind>> \o e

\* The function whose request is the check of the call.
check_func(call) ==
    IF call.fn \in {"installed", "install", "uninstall"} THEN "installed"
    ELSE IF call.fn \in {"running", "action"} THEN "running"
    ELSE "enabled"

\* installed(), running(), enabled(): the error of a failed check.
check_err(endpoint, call, e) ==
    chain_err(ErrKind("Request", endpoint, check_func(call), ""), e)

\* A mutant of and_then_err: the wrapper chains its own Request kind.
and_then_err_chained(endpoint, call, e) ==
    chain_err(ErrKind("Request", endpoint, call.fn, ""), e)

\* check.and_then(closure) on a failed check: the closure is not run and
\* the error is the future's error.
and_then_err(endpoint, call, e) == e

\* The error of a failed second request, chained by the wrapper (do_action
\* for Service::action).
do_err(endpoint, call, e) ==
    chain_err(ErrKind("Request", endpoint, call.fn, ""), e)

\* A package manager command running on the machine.
Proc(op, name) == [op |-> op, name |-> name]

\* A finished call.
Finished(call, chk, res, issued) ==
    [call |-> call, chk |-> chk, res |-> res, issued |-> issued]

NoFinished == Finished(NoCall, "none", "pending", <<>>)

\* The caller calls a function of Package or Service.
LibCall ==
    /\ l_pc \in {"idle", "done"}
    /\ l_n < MaxCalls
    /\ \E call \in (IF l_endpoint = "Package" THEN PackageCalls ELSE ServiceCalls) :
        /\ l_call' = call
        /\ l_issued' = <<first_request(call).k>>
        /\ l_pc' = IF IsCheck(first_request(call).k) THEN "check" ELSE "do"
    /\ l_prev' = IF l_pc = "done" THEN Finished(l_call, l_chk, l_res, l_issued) ELSE l_prev
    /\ l_n' = l_n + 1
    /\ l_chk' = "none"
    /\ l_res' = "pending"
    /\ l_chk_err' = NoError
    /\ l_err' = NoError
    /\ UNCHANGED <<l_endpoint, l_prov, l_db, l_procs>>
    /\ UNCHANGED <<codecVars, cmdVars, reqVars, rtVars, afterLc>>

\* The check request resolves; and_then runs the closure, which resolves
\* the call or issues the second request.
LibCheck ==
    /\ l_pc = "check"
    /\ \E r \in CheckResults(l_call, l_prov, l_db) :
        /\ l_chk' = r
        /\ IF r = "error"
           THEN /\ l_res' = "error"
                /\ l_pc' = "done"
                /\ \E e \in RequestErrors :
                    /\ l_chk_err' = check_err(l_endpoint, l_call, e)
                    /\ l_err' = IF l_call.fn \in {"installed", "running", "enabled"}
                                THEN l_chk_err'
                                ELSE and_then_err(l_endpoint, l_call, l_chk_err')
                /\ UNCHANGED l_issued
           ELSE IF l_call.fn \in {"installed", "running", "enabled"}
           THEN /\ l_res' = r
                /\ l_pc' = "done"
                /\ UNCHANGED <<l_issued, l_chk_err, l_err>>
           ELSE LET d == and_then(l_call, r = "true") IN
                IF d.issue
                THEN /\ l_issued' = Append(l_issued, d.k)
                     /\ l_pc' = "do"
                     /\ UNCHANGED <<l_res, l_chk_err, l_err>>
                ELSE /\ l_res' = "None"
                     /\ l_pc' = "done"
                     /\ UNCHANGED <<l_issued, l_chk_err, l_err>>
    /\ UNCHANGED <<l_endpoint, l_prov, l_db, l_procs, l_call, l_prev, l_n>>
    /\ UNCHANGED <<codecVars, cmdVars, reqVars, rtVars, afterLc>>

\* The second request resolves: the provider spawned its command (the
\* Child of PackageInstall, PackageUninstall and ServiceAction) or did its
\* work (ServiceEnable, ServiceDisable), or the request failed. A request
\* to a remote host can fail after the agent has spawned the command (the
\* connection is lost before the response arrives), so a failed request
\* leaves the command running or not.
LibDo ==
    /\ l_pc = "do"
    /\ l_pc' = "done"
    /\ \/ /\ l_res' = "Some"
          /\ l_procs' = IF l_call.fn \in {"install", "uninstall"}
                        THEN l_procs \cup {Proc(l_call.fn, l_call.name)}
                        ELSE l_procs
          /\ UNCHANGED l_err
       \/ /\ l_res' = "error"
          /\ \E e \in RequestErrors : l_err' = do_err(l_endpoint, l_call, e)
          /\ \/ UNCHANGED l_procs
             \/ l_procs' = IF l_call.fn \in {"install", "uninstall"}
                           THEN l_procs \cup {Proc(l_call.fn, l_call.name)}
                           ELSE l_procs
    /\ UNCHANGED <<l_endpoint, l_prov, l_db, l_call, l_chk, l_issued, l_prev, l_n,
                   l_chk_err>>
    /\ UNCHANGED <<codecVars, cmdVars, reqVars, rtVars, afterLc>>

\* A package manager command exits: with success it has changed the
\* database, with a failure it has not.
LibProcExit ==
    /\ \E p \in l_procs :
        /\ l_procs' = l_procs \ {p}
        /\ \/ l_db' = IF p.op = "install" THEN l_db \cup {p.name} ELSE l_db \ {p.name}
           \/ UNCHANGED l_db
    /\ UNCHANGED <<l_endpoint, l_prov, l_call, l_pc, l_chk, l_res, l_issued, l_prev, l_n,
                   l_chk_err, l_err>>
    /\ UNCHANGED <<codecVars, cmdVars, reqVars, rtVars, afterLc>>

(***************************************************************************)
(* The provider factories (core/src/{command,package,service}/providers).  *)
(***************************************************************************)
\* The candidates of each endpoint, in the order the factory tries them.
CommandOrder == <<"Generic">>

PackageOrder == <<"Apt", "Dnf", "Homebrew", "Nix", "Pkg", "Yum">>

ServiceOrder == <<"Systemd", "Debian", "Homebrew", "Launchctl", "Rc", "Redhat">>

factory_order(endpoint) ==
    IF endpoint = "Command" THEN CommandOrder
    ELSE IF endpoint = "Package" THEN PackageOrder
    ELSE ServiceOrder

\* The program each package provider looks for with /usr/bin/type.
type_arg(cand) ==
    IF cand = "Apt" THEN "apt-get"
    ELSE IF cand = "Dnf" THEN "dnf"
    ELSE IF cand = "Homebrew" THEN "brew"
    ELSE IF cand = "Nix" THEN "nix-env"
    ELSE IF cand = "Pkg" THEN "pkg"
    ELSE "yum"

Programs == {"apt-get", "dnf", "brew", "nix-env", "pkg", "yum"}

\* What running a probe command gives: it exits with success, it exits
\* with a failure, or it cannot be run.
ProbeOutcomes == {"success", "failure", "error"}

\* /usr/bin/stat --format=%N /proc/1/exe: its output names systemd or not,
\* it exits with a failure, or it cannot be run.
StatOutcomes == {"systemd", "other", "failure", "error"}

OsFamilies == {"Bsd", "Darwin", "Debian", "RHEL", "Standalone"}

MinorVersions == {10, 11}

\* The machine a factory runs on.
Env(type, stat, family, version_min) ==
    [type |-> type, stat |-> stat, family |-> family, version_min |-> version_min]

\* Result<bool> of an availability probe.
Avail(ok, b, why) == [ok |-> ok, b |-> b, why |-> why]

\* <Package provider>::available: the status of /usr/bin/type <program>.
type_available(prog, env) ==
    IF env.type[prog] = "error"
    THEN Avail(FALSE, FALSE, "Could not determine provider availability")
    ELSE Avail(TRUE, env.type[prog] = "success", "")

\* Systemd::available.
systemd_available(env) ==
    IF env.stat = "error"
    THEN Avail(FALSE, FALSE, "Could not determine provider availability")
    ELSE IF env.stat = "failure" THEN Avail(FALSE, FALSE, "SystemCommand")
    ELSE Avail(TRUE, env.stat = "systemd", "")

\* A mutant of launchctl_available: the family is not looked at.
launchctl_available_any_family(env) ==
    Avail(TRUE, env.version_min >= 11, "")

\* Launchctl::available.
launchctl_available(env) ==
    Avail(TRUE, env.family = "Darwin" /\ env.version_min >= 11, "")

\* Homebrew::available of the service endpoint.
homebrew_available(env) ==
    LET brew == type_available("brew", env) IN
    IF ~brew.ok THEN brew
    ELSE Avail(TRUE, brew.b /\ launchctl_available(env).b, "")

\* available() of a candidate of an endpoint.
available(endpoint, cand, env) ==
    IF endpoint = "Command" THEN Avail(TRUE, TRUE, "")
    ELSE IF endpoint = "Package" THEN type_available(type_arg(cand), env)
    ELSE IF cand = "Systemd" THEN systemd_available(env)
    ELSE IF cand = "Debian" THEN Avail(TRUE, env.family = "Debian", "")
    ELSE IF cand = "Homebrew" THEN homebrew_available(env)
    ELSE IF cand = "Launchctl" THEN launchctl_available(env)
    ELSE IF cand = "Rc" THEN Avail(TRUE, env.family = "Bsd", "")
    ELSE Avail(TRUE, env.family = "RHEL", "")

\* Result<Box<Provider>> of a factory.
FactoryResult(kind, what) == [kind |-> kind, what |-> what]

\* A mutant of factory_from: a candidate whose probe fails is passed over.
RECURSIVE factory_from_skips_errors(_, _, _)
factory_from_skips_errors(i, endpoint, env) ==
    IF i > Len(factory_order(endpoint))
    THEN FactoryResult("ProviderUnavailable", endpoint)
    ELSE LET cand == factory_order(endpoint)[i]
             a    == available(endpoint, cand, env)
         IN  IF a.ok /\ a.b THEN FactoryResult("provider", cand)
             ELSE factory_from_skips_errors(i + 1, endpoint, env)

\* The if / else-if chain of a factory from candidate i on: `?` returns the
\* error of a probe, the first available candidate is returned, and the
\* final else is ProviderUnavailable(endpoint).
RECURSIVE factory_from(_, _, _)
factory_from(i, endpoint, env) ==
    IF i > Len(factory_order(endpoint))
    THEN FactoryResult("ProviderUnavailable", endpoint)
    ELSE LET cand == factory_order(endpoint)[i]
             a    == available(endpoint, cand, env)
         IN  IF ~a.ok THEN FactoryResult("error", a.why)
             ELSE IF a.b THEN FactoryResult("provider", cand)
             ELSE factory_from(i + 1, endpoint, env)

factory(endpoint, env) == factory_from(1, endpoint, env)

NoEnv == Env([p \in Programs |-> "failure"], "other", "Standalone", 10)

NoFactoryResult == FactoryResult("none", "")

FactoryCall ==
    /\ f_pc = "new"
    /\ f_result' = factory(f_endpoint, f_env)
    /\ f_pc' = "done"
    /\ UNCHANGED <<f_endpoint, f_env>>
    /\ UNCHANGED <<codecVars, cmdVars, reqVars, rtVars, lcVars, afterF>>

(***************************************************************************)
(* The Child handle (core/src/command/child.rs): take_stream, result and   *)
(* the Future impl.                                                        *)
(***************************************************************************)
\* The number of calls made on one Child.
MaxOps == 4

\* A call on the Child with what it returned.
ChildCall(op, ret) == [op |-> op, ret |-> ret]

\* What a call does to the Child: what it returns and the stream it leaves.
Took(ret, stream) == [ret |-> ret, stream |-> stream]

\* A mutant of take_stream: the stream is handed out and kept.
take_stream_keeps(stream) == Took(stream, stream)

\* Child::take_stream: self.stream.take().
take_stream(stream) == Took(stream, "None")

\* Child::result: Some(CommandResult) if the stream is there, else None.
result(stream) == IF stream = "Some" THEN "Some" ELSE "None"

\* What polling the exit-status future can give.
PollOutcomes == {"NotReady", "Ready", "Err"}

ChTakeStream ==
    /\ ch_alive
    /\ Len(ch_log) < MaxOps
    /\ ch_stream' = take_stream(ch_stream).stream
    /\ ch_log' = Append(ch_log, ChildCall("take_stream", take_stream(ch_stream).ret))
    /\ UNCHANGED <<ch_origin, ch_exit, ch_alive>>
    /\ UNCHANGED <<codecVars, cmdVars, reqVars, rtVars, lcVars, fVars, afterCh>>

\* Future for Child::poll: a stream still there is taken and drained into
\* the exit-status future, which is then polled.
ChPoll ==
    /\ ch_alive
    /\ ch_exit # "done"
    /\ Len(ch_log) < MaxOps
    /\ ch_stream' = "None"
    /\ \E r \in PollOutcomes :
        /\ ch_log' = Append(ch_log, ChildCall("poll", r))
        /\ ch_exit' = IF r # "NotReady" THEN "done"
                      ELSE IF ch_stream = "Some" THEN "drained"
                      ELSE ch_exit
    /\ UNCHANGED <<ch_origin, ch_alive>>
    /\ UNCHANGED <<codecVars, cmdVars, reqVars, rtVars, lcVars, fVars, afterCh>>

\* Child::result consumes the Child.
ChResult ==
    /\ ch_alive
    /\ Len(ch_log) < MaxOps
    /\ ch_log' = Append(ch_log, ChildCall("result", result(ch_stream)))
    /\ ch_alive' = FALSE
    /\ ch_stream' = "None"
    /\ UNCHANGED <<ch_origin, ch_exit>>
    /\ UNCHANGED <<codecVars, cmdVars, reqVars, rtVars, lcVars, fVars, afterCh>>

(***************************************************************************)
(* The CommandResult of Child::result (core/src/command/child.rs): the     *)
(* stream folded into a string, joined with the exit status.               *)
(***************************************************************************)
\* The number of lines the stream yields.
MaxLines == 3

ResultLines == {B_a, B_e, B_empty}

\* The exit statuses of a process: code 0, code 1, killed by a signal.
ResultStatuses ==
    {exit_status_of(OsExited(0)), exit_status_of(OsExited(1)), exit_status_of(OsSignaled)}

\* What the exit-status future resolves to.
StatusOutcomes == {RxValue(s) : s \in ResultStatuses} \cup {RxError("Command execution failed")}

\* The item of CommandResult: pending, Ok(output), Err(Command(output)) or
\* the error of the stream or of the exit status.
CmdResult(kind, output) == [kind |-> kind, output |-> output]

\* A mutant of fold_line: the line is put before the accumulator.
fold_line_before(acc, line) == line \o acc

\* The closure of stream.fold: acc.push_str(&line).
fold_line(acc, line) == acc \o line

\* fold(..).join(exit_status).and_then(..) once polled with the fold in
\* state fold ("running", "done", "failed") and the status in state st.
result_poll(fold, st, acc, status) ==
    IF fold = "failed" \/ st = "failed" THEN CmdResult("Err", <<>>)
    ELSE IF fold = "done" /\ st = "done"
    THEN (IF status.v.success THEN CmdResult("Ok", acc) ELSE CmdResult("Command", acc))
    ELSE CmdResult("pending", <<>>)

\* The stream yields its next line.
RsLine ==
    /\ rs_out.kind = "pending"
    /\ rs_fold = "running"
    /\ rs_pos < Len(rs_items)
    /\ rs_pos' = rs_pos + 1
    /\ rs_acc' = fold_line(rs_acc, rs_items[rs_pos + 1])
    /\ UNCHANGED <<rs_items, rs_end, rs_status, rs_fold, rs_st, rs_out>>
    /\ UNCHANGED exceptRs

\* The stream ends, or fails.
RsStreamEnd ==
    /\ rs_out.kind = "pending"
    /\ rs_fold = "running"
    /\ rs_pos = Len(rs_items)
    /\ rs_fold' = IF rs_end = "end" THEN "done" ELSE "failed"
    /\ rs_out' = result_poll(rs_fold', rs_st, rs_acc, rs_status)
    /\ UNCHANGED <<rs_items, rs_end, rs_status, rs_pos, rs_acc, rs_st>>
    /\ UNCHANGED exceptRs

\* The exit-status future resolves.
RsStatus ==
    /\ rs_out.kind = "pending"
    /\ rs_st = "waiting"
    /\ rs_st' = IF rs_status.st = "value" THEN "done" ELSE "failed"
    /\ rs_out' = result_poll(rs_fold, rs_st', rs_acc, rs_status)
    /\ UNCHANGED <<rs_items, rs_end, rs_status, rs_pos, rs_acc, rs_fold>>
    /\ UNCHANGED exceptRs

(***************************************************************************)
(* The agent (agent/src/main.rs): TcpServer::new(JsonLineProto, address)   *)
(* on one thread; every accepted connection gets its own JsonLineCodec     *)
(* (bind_transport) and its own Api (new_service).                         *)
(***************************************************************************)
MaxConns == 2

MaxSent == 2

Conns == 1..MaxConns

\* The header and body lines a peer sends: null with flag 0 and with flag 1,
\* a with flag 0 and with flag 1 (a is not JSON), and the empty line.
PeerLines ==
    {B_null \o <<FlagNoBody>>, B_null \o <<FlagBody>>,
     B_a \o <<FlagNoBody>>, B_a \o <<FlagBody>>, B_empty}

Conn(st, buf, head, n) == [st |-> st, buf |-> buf, head |-> head, sent |-> n]

\* A connection nobody has made yet.
NoConn == Conn("none", <<>>, TRUE, 0)

Event(ev, c) == [ev |-> ev, c |-> c]

\* A panic on the agent's only thread unwinds out of the reactor: the process
\* ends and with it every connection.
abort_all(conns) ==
    [j \in Conns |-> IF conns[j].st = "open"
                      THEN Conn("closed", <<>>, conns[j].head, conns[j].sent)
                      ELSE conns[j]]

\* The listener accepts connection i: bind_transport makes a codec with
\* decoding_head = true, new_service makes the Api, where
\* Local::new(&handle).wait().unwrap() panics when telemetry does not load.
AgAccept(i) ==
    /\ ag_proc = "running"
    /\ cn[i].st = "none"
    /\ IF ag_telemetry = "ok"
       THEN /\ cn' = [cn EXCEPT ![i] = Conn("open", <<>>, TRUE, 0)]
            /\ ag_log' = Append(ag_log, Event("accept", i))
            /\ UNCHANGED ag_proc
       ELSE /\ cn' = abort_all(cn)
            /\ ag_log' = Append(ag_log, Event("panic", i))
            /\ ag_proc' = "aborted"
    /\ UNCHANGED ag_telemetry
    /\ UNCHANGED exceptAg

\* The peer of connection i sends one line.
AgReceive(i) ==
    /\ ag_proc = "running"
    /\ cn[i].st = "open"
    /\ cn[i].sent < MaxSent
    /\ \E line \in PeerLines :
        cn' = [cn EXCEPT ![i].buf = @ \o line \o <<NL>>, ![i].sent = @ + 1]
    /\ UNCHANGED <<ag_proc, ag_telemetry, ag_log>>
    /\ UNCHANGED exceptAg

\* The transport of connection i runs decode on what has arrived: a header
\* frame is dispatched to Api::call, a body frame goes to the request's body,
\* an error ends the connection's task, a panic ends the process.
AgDecode(i) ==
    /\ ag_proc = "running"
    /\ cn[i].st = "open"
    /\ LET r == decode(cn[i].buf, cn[i].head) IN
        /\ r.res # "none"
        /\ IF r.res = "frame"
           THEN /\ cn' = [cn EXCEPT ![i].buf = r.buf, ![i].head = r.head]
                /\ ag_log' = Append(ag_log,
                        Event(IF r.frame.kind = "Message" THEN "request" ELSE "body", i))
                /\ UNCHANGED ag_proc
           ELSE IF r.res = "error"
           THEN /\ cn' = [cn EXCEPT ![i] = Conn("closed", <<>>, r.head, cn[i].sent)]
                /\ ag_log' = Append(ag_log, Event("error", i))
                /\ UNCHANGED ag_proc
           ELSE /\ cn' = abort_all(cn)
                /\ ag_log' = Append(ag_log, Event("panic", i))
                /\ ag_proc' = "aborted"
    /\ UNCHANGED ag_telemetry
    /\ UNCHANGED exceptAg

(***************************************************************************)
(* The provider setters of a Host (core/src/host/local.rs, remote.rs):     *)
(* set_command, set_package, set_service on a Host whose provider table    *)
(* is behind an Arc that the clones of the Host share.                     *)
(***************************************************************************)
MaxClones == 2

MaxSets == 2

\* for _ in 0..5
Attempts == 5

Setters == {"command", "package", "service"}

ProviderValues == {"default", "custom"}

Table(command, package, service) ==
    [command |-> command, package |-> package, service |-> service]

DefaultTable == Table("default", "default", "default")

SetterCall(which, provider, before) ==
    [which |-> which, provider |-> provider, before |-> before]

NoSetterCall == SetterCall("none", "default", DefaultTable)

\* A mutant of get_mut: the reference is handed out while clones exist.
get_mut_shared(others) == TRUE

\* Arc::get_mut(&mut self.inner): Some only when this is the only Arc.
get_mut(others) == others = 0

\* inner.providers.<which> = Box::new(provider)
set_provider(table, which, provider) == [table EXCEPT ![which] = provider]

\* A setter is called on the Host.
StSet ==
    /\ st_pc \in {"idle", "Ok", "MutRef"}
    /\ st_n < MaxSets
    /\ \E which \in Setters, provider \in ProviderValues :
        st_call' = SetterCall(which, provider, st_table)
    /\ st_pc' = "try"
    /\ st_attempts' = 0
    /\ st_n' = st_n + 1
    /\ UNCHANGED <<st_host, st_table, st_others>>
    /\ UNCHANGED exceptSt

\* One iteration of the loop: get_mut, then the assignment and return
\* Ok(()), or sleep.
StTry ==
    /\ st_pc = "try"
    /\ IF get_mut(st_others)
       THEN /\ st_table' = set_provider(st_table, st_call.which, st_call.provider)
            /\ st_pc' = "Ok"
            /\ UNCHANGED st_attempts
       ELSE /\ st_pc' = "sleep"
            /\ st_attempts' = st_attempts + 1
            /\ UNCHANGED st_table
    /\ UNCHANGED <<st_host, st_others, st_call, st_n>>
    /\ UNCHANGED exceptSt

\* The sleep of 1 ms ends: the next iteration, or after the last one
\* Err(ErrorKind::MutRef("Local")).
StWake ==
    /\ st_pc = "sleep"
    /\ st_pc' = IF st_attempts < Attempts THEN "try" ELSE "MutRef"
    /\ UNCHANGED <<st_host, st_table, st_others, st_call, st_attempts, st_n>>
    /\ UNCHANGED exceptSt

\* The Host is cloned: by its owner outside a setter (which borrows it
\* mutably), or by the holder of another clone.
StClone ==
    /\ st_others < MaxClones
    /\ st_others > 0 \/ st_pc \in {"idle", "Ok", "MutRef"}
    /\ st_others' = st_others + 1
    /\ UNCHANGED <<st_host, st_table, st_pc, st_call, st_attempts, st_n>>
    /\ UNCHANGED exceptSt

\* Another clone is dropped.
StDrop ==
    /\ st_others > 0
    /\ st_others' = st_others - 1
    /\ UNCHANGED <<st_host, st_table, st_pc, st_call, st_attempts, st_n>>
    /\ UNCHANGED exceptSt

(***************************************************************************)
(* installed() of the package providers (core/src/package/providers).      *)
(***************************************************************************)
AllPackageProviders == {"Apt", "Dnf", "Yum", "Homebrew", "Nix", "Pkg"}

\* How the query command ends: it cannot be run ("spawn_error"), or it exits
\* ("exited") with or without success, its stdout listing the packages
\* `listed` and, for nix-env, holding "these paths will be fetched" or not.
Output(kind, success, listed, fetch) ==
    [kind |-> kind, success |-> success, listed |-> listed, fetch |-> fetch]

Outputs ==
    {Output("spawn_error", FALSE, {}, FALSE)}
        \cup {Output("exited", ok, l, f) :
                ok \in BOOLEAN, l \in SUBSET PkgNames, f \in BOOLEAN}

QueryResult(kind, value, msg) == [kind |-> kind, value |-> value, msg |-> msg]

NoQueryResult == QueryResult("pending", FALSE, "")

\* The regexes "(?m)^{name}\.({arch}|noarch)\s+" of dnf and yum and
\* "(?m)(^|\s+){name}\s+" of brew: the name's part spans a whole listed name.
listed_matches(name, listed) == \E q \in listed : regex_full_match(name, q)

\* A mutant of installed_apt: the exit status of dpkg is not looked at.
installed_apt_any_status(name, out) ==
    IF out.kind = "spawn_error"
    THEN QueryResult("Err", FALSE, "Could not get installed packages")
    ELSE QueryResult("Ok", apt_installed(name, out.listed), "")

\* Apt::installed: dpkg --get-selections.
installed_apt(name, out) ==
    IF out.kind = "spawn_error"
    THEN QueryResult("Err", FALSE, "Could not get installed packages")
    ELSE IF out.success
    THEN QueryResult("Ok", apt_installed(name, out.listed), "")
    ELSE QueryResult("Err", FALSE, "Error running dpkg --get-selections")

\* Dnf::installed, Yum::installed, Homebrew::installed: dnf list installed,
\* yum list installed, brew list.
installed_listed(name, out, cmd) ==
    IF out.kind = "spawn_error"
    THEN QueryResult("Err", FALSE, "Could not get installed packages")
    ELSE IF out.success
    THEN QueryResult("Ok", listed_matches(name, out.listed), "")
    ELSE QueryResult("Err", FALSE, cmd)

\* Nix::installed: nix-env --install --dry-run name.
installed_nix(name, out) ==
    IF out.kind = "spawn_error"
    THEN QueryResult("Err", FALSE, "Could not check if package is installed")
    ELSE IF out.success
    THEN QueryResult("Ok", ~out.fetch, "")
    ELSE QueryResult("Err", FALSE, "Error running nix-env --install --dry-run")

\* Pkg::installed: pkg query "%n" name; future::ok(output.status.success()).
installed_pkg(name, out) ==
    IF out.kind = "spawn_error"
    THEN QueryResult("Err", FALSE, "Could not get installed packages")
    ELSE QueryResult("Ok", out.success, "")

\* PackageProvider::installed of provider prov.
installed(prov, name, out) ==
    IF prov = "Apt" THEN installed_apt(name, out)
    ELSE IF prov = "Dnf" THEN installed_listed(name, out, "Error running dnf list installed")
    ELSE IF prov = "Yum" THEN installed_listed(name, out, "Error running yum list installed")
    ELSE IF prov = "Homebrew"
    THEN installed_listed(name, out, "Error running brew list installed")
    ELSE IF prov = "Nix" THEN installed_nix(name, out)
    ELSE installed_pkg(name, out)

\* The future of installed() resolves.
PqInstalled ==
    /\ pq_pc = "called"
    /\ pq_res' = installed(pq_prov, pq_name, pq_out)
    /\ pq_pc' = "done"
    /\ UNCHANGED <<pq_prov, pq_name, pq_out>>
    /\ UNCHANGED exceptPq

(***************************************************************************)
(* Specifications.                                                         *)
(***************************************************************************)
RtIdle ==
    /\ rt_req = NoRequest
    /\ rt_pc = "idle"
    /\ rt_msg = BodyEnd
    /\ rt_wire = <<>>
    /\ rt_back = NoBack
    /\ rt_resp = NoResp

LcIdle ==
    /\ l_endpoint = "Package"
    /\ l_prov = "Apt"
    /\ l_db = {}
    /\ l_procs = {}
    /\ l_call = NoCall
    /\ l_pc = "idle"
    /\ l_chk = "none"
    /\ l_res = "pending"
    /\ l_issued = <<>>
    /\ l_prev = NoFinished
    /\ l_n = 0
    /\ l_chk_err = NoError
    /\ l_err = NoError

FIdle ==
    /\ f_endpoint = "Command"
    /\ f_env = NoEnv
    /\ f_pc = "idle"
    /\ f_result = NoFactoryResult

ChIdle ==
    /\ ch_origin = "spawn"
    /\ ch_stream = "None"
    /\ ch_exit = "done"
    /\ ch_alive = FALSE
    /\ ch_log = <<>>

RsIdle ==
    /\ rs_items = <<>>
    /\ rs_end = "end"
    /\ rs_status = RxPending
    /\ rs_pos = 0
    /\ rs_acc = <<>>
    /\ rs_fold = "idle"
    /\ rs_st = "idle"
    /\ rs_out = CmdResult("none", <<>>)

(***************************************************************************)
(* Two callers of one idempotence wrapper on one host                      *)
(* (core/src/package/mod.rs, core/src/service/mod.rs): each call is the    *)
(* check request, and_then the closure that may issue the second request.  *)
(***************************************************************************)
MaxCallers == 2

Callers == 1..MaxCallers

\* A call of a caller: where it is, what its check returned, what it
\* resolved to.
RaceCall(pc, chk, res) == [pc |-> pc, chk |-> chk, res |-> res]

\* A request executed by the host, and for whom.
RaceEvent(who, what) == [who |-> who, what |-> what]

\* The closure of the wrapper called: Package::install or
\* Service::action("start").
race_closure(kind, v) ==
    IF kind = "Package" THEN package_install(v) ELSE service_action(v, B_start)

\* The caller calls install() or action("start"): the check request is made.
RcCall(i) ==
    /\ rc[i].pc = "new"
    /\ rc' = [rc EXCEPT ![i].pc = "check"]
    /\ UNCHANGED <<rc_kind, rc_state, rc_procs, rc_log>>
    /\ UNCHANGED exceptRc

\* The host executes the check of a caller on the machine as it is now;
\* and_then runs the closure, which resolves the call or issues the
\* mutating request.
RcCheck(i) ==
    /\ rc[i].pc = "check"
    /\ \E r \in {IF rc_state THEN "true" ELSE "false", "error"} :
        rc' = [rc EXCEPT ![i] =
                IF r = "error" THEN RaceCall("done", r, "error")
                ELSE IF race_closure(rc_kind, r = "true").issue
                THEN RaceCall("do", r, "pending")
                ELSE RaceCall("done", r, "None")]
    /\ rc_log' = Append(rc_log, RaceEvent(i, "check"))
    /\ UNCHANGED <<rc_kind, rc_state, rc_procs>>
    /\ UNCHANGED exceptRc

\* The host executes the mutating request of a caller: the provider spawns
\* its command and the call resolves to Some(Child), or the request fails.
\* The request of a Remote host can fail after the agent has spawned the
\* command, so a failed request leaves the command running or not.
RcDo(i) ==
    /\ rc[i].pc = "do"
    /\ \/ /\ rc' = [rc EXCEPT ![i] = RaceCall("done", rc[i].chk, "Some")]
          /\ rc_procs' = rc_procs + 1
       \/ /\ rc' = [rc EXCEPT ![i] = RaceCall("done", rc[i].chk, "error")]
          /\ \/ UNCHANGED rc_procs
             \/ rc_procs' = rc_procs + 1
    /\ rc_log' = Append(rc_log, RaceEvent(i, "do"))
    /\ UNCHANGED <<rc_kind, rc_state>>
    /\ UNCHANGED exceptRc

\* A mutating command exits: with success the package is installed or the
\* service runs.
RcProcExit ==
    /\ rc_procs > 0
    /\ rc_procs' = rc_procs - 1
    /\ \E ok \in BOOLEAN : rc_state' = (rc_state \/ ok)
    /\ UNCHANGED <<rc_kind, rc, rc_log>>
    /\ UNCHANGED exceptRc

RcIdle ==
    /\ rc_kind = "Package"
    /\ rc_state = FALSE
    /\ rc_procs = 0
    /\ rc = <<>>
    /\ rc_log = <<>>

(***************************************************************************)
(* The legacy Telemetry (src/telemetry/mod.rs): a struct of six optional   *)
(* fields, each filled by its getter from the target on first use.         *)
(***************************************************************************)
\* The number of getter calls on one Telemetry.
MaxGets == 4

TgNames == {"cpu", "fs", "hostname", "memory", "net", "os"}

\* What a query of the target gives when it is made: a datum or an error.
TgData == {"d1", "d2"}

TgOutcomes == TgData \cup {"Err"}

\* Telemetry::new(): every field is None.
telemetry_new == [f \in TgNames |-> "None"]

\* What a getter does: the Telemetry it leaves, what it returns, and
\* whether it queried the target.
Got(t, ret, queried) == [t |-> t, ret |-> ret, queried |-> queried]

\* A mutant of get_memory: the target is queried on every call.
get_memory_requeries(t, out) ==
    IF out = "Err" THEN Got(t, "Err", TRUE)
    ELSE Got([t EXCEPT !.memory = out], out, TRUE)

\* Telemetry::get_cpu: if self.cpu.is_none() { self.cpu = Some(try!(..)) }.
get_cpu(t, out) ==
    IF t.cpu = "None"
    THEN IF out = "Err" THEN Got(t, "Err", TRUE)
         ELSE Got([t EXCEPT !.cpu = out], out, TRUE)
    ELSE Got(t, t.cpu, FALSE)

get_fs(t, out) ==
    IF t.fs = "None"
    THEN IF out = "Err" THEN Got(t, "Err", TRUE)
         ELSE Got([t EXCEPT !.fs = out], out, TRUE)
    ELSE Got(t, t.fs, FALSE)

get_hostname(t, out) ==
    IF t.hostname = "None"
    THEN IF out = "Err" THEN Got(t, "Err", TRUE)
         ELSE Got([t EXCEPT !.hostname = out], out, TRUE)
    ELSE Got(t, t.hostname, FALSE)

get_memory(t, out) ==
    IF t.memory = "None"
    THEN IF out = "Err" THEN Got(t, "Err", TRUE)
         ELSE Got([t EXCEPT !.memory = out], out, TRUE)
    ELSE Got(t, t.memory, FALSE)

get_net(t, out) ==
    IF t.net = "None"
    THEN IF out = "Err" THEN Got(t, "Err", TRUE)
         ELSE Got([t EXCEPT !.net = out], out, TRUE)
    ELSE Got(t, t.net, FALSE)

get_os(t, out) ==
    IF t.os = "None"
    THEN IF out = "Err" THEN Got(t, "Err", TRUE)
         ELSE Got([t EXCEPT !.os = out], out, TRUE)
    ELSE Got(t, t.os, FALSE)

\* The getter of a name.
getter(f, t, out) ==
    CASE f = "cpu"      -> get_cpu(t, out)
      [] f = "fs"       -> get_fs(t, out)
      [] f = "hostname" -> get_hostname(t, out)
      [] f = "memory"   -> get_memory(t, out)
      [] f = "net"      -> get_net(t, out)
      [] OTHER          -> get_os(t, out)

\* A getter call as the caller saw it, with the field as it was before.
TgCall(f, before, ret, queried) ==
    [field |-> f, before |-> before, ret |-> ret, queried |-> queried]

NoTgCall == TgCall("none", "None", "None", FALSE)

\* The caller calls a getter; a query, if the getter makes one, gives out.
TgGet ==
    /\ tg_n < MaxGets
    /\ \E f \in TgNames, out \in TgOutcomes :
        \E r \in {getter(f, tg_fields, out)} :
            /\ tg_fields' = r.t
            /\ tg_ok' = [tg_ok EXCEPT ![f] =
                            IF r.queried /\ r.ret # "Err" THEN @ + 1 ELSE @]
            /\ tg_last' = TgCall(f, tg_fields[f], r.ret, r.queried)
    /\ tg_n' = tg_n + 1
    /\ UNCHANGED exceptTg

TgIdle ==
    /\ tg_fields = <<>>
    /\ tg_ok = <<>>
    /\ tg_last = NoTgCall
    /\ tg_n = 0

PqIdle ==
    /\ pq_prov = "Apt"
    /\ pq_name = <<>>
    /\ pq_out = Output("none", FALSE, {}, FALSE)
    /\ pq_pc = "idle"
    /\ pq_res = NoQueryResult

StIdle ==
    /\ st_host = "Local"
    /\ st_table = DefaultTable
    /\ st_others = 0
    /\ st_pc = "unused"
    /\ st_call = NoSetterCall
    /\ st_attempts = 0
    /\ st_n = 0

AgIdle ==
    /\ ag_proc = "idle"
    /\ ag_telemetry = "ok"
    /\ cn = <<>>
    /\ ag_log = <<>>

CaIdle ==
    /\ ca_resp = Response("none", JBare(SNull), Body(FALSE, <<>>))
    /\ ca_pc = "idle"
    /\ ca_out = NoCallOut

\* The later specifications other than g are idle.
MoreIdleBut(g) ==
    /\ IF g = "rs" THEN TRUE ELSE RsIdle
    /\ IF g = "ca" THEN TRUE ELSE CaIdle
    /\ IF g = "ag" THEN TRUE ELSE AgIdle
    /\ IF g = "st" THEN TRUE ELSE StIdle
    /\ IF g = "pq" THEN TRUE ELSE PqIdle
    /\ IF g = "rc" THEN TRUE ELSE RcIdle
    /\ IF g = "tg" THEN TRUE ELSE TgIdle

\* The later specifications are idle.
MoreIdle == MoreIdleBut("none")

LibIdle ==
    /\ RtIdle
    /\ LcIdle
    /\ FIdle
    /\ ChIdle
    /\ MoreIdle

\* The first specifications of the client library are idle.
LibBaseIdle ==
    /\ RtIdle
    /\ LcIdle
    /\ FIdle
    /\ ChIdle

\* Largest number of lines the child writes to stdout and to stderr.
MaxOut == 2

MaxErr == 1

\* Largest number of requests on one connection.
MaxReqs == 2

CodecIdle ==
    /\ c_msgs = <<>>
    /\ c_enc = 0
    /\ c_buf = <<>>
    /\ c_frames = <<>>

CmdIdle ==
    /\ script = [out |-> <<>>, err |-> <<>>]
    /\ child = [out |-> 0, err |-> 0, state |-> "running", os |-> OsExited(0)]
    /\ task = TaskInit
    /\ chan = <<>>
    /\ sent = <<>>
    /\ rx_alive = TRUE
    /\ s_pos = "header"
    /\ cl_call = "waiting"
    /\ cl_msg = NoMessage
    /\ cl_recv = <<>>
    /\ cl_body_state = "open"
    /\ cl_pulled = 0
    /\ cl_child = NoChild
    /\ cons = "none"
    /\ cl_lines = <<>>

ReqIdle ==
    /\ q_reqs = <<>>
    /\ q_idx = 0
    /\ q_up = <<>>
    /\ q_srv_head = TRUE
    /\ q_conn = "open"
    /\ q_svc = <<>>
    /\ q_out = 0
    /\ q_wrote = <<>>
    /\ q_wbuf = NoWBuf
    /\ q_ready = {}
    /\ q_body = <<>>
    /\ q_down = <<>>
    /\ q_cl_head = TRUE
    /\ q_got = <<>>
    /\ q_pend = <<>>
    /\ q_remote = <<>>
    /\ q_local = <<>>

InitCodec ==
    /\ c_msgs \in {<<m>> : m \in CodecMessages}
                    \cup {<<m, FollowUp>> : m \in CodecMessages}
    /\ c_enc = 0
    /\ c_wire = <<>>
    /\ c_buf = <<>>
    /\ decoding_head = TRUE
    /\ c_frames = <<>>
    /\ c_status = "ok"
    /\ CmdIdle
    /\ ReqIdle
    /\ LibIdle

NextCodec == CodecEncode \/ CodecDeliver \/ CodecDecode

SpecCodec == InitCodec /\ [][NextCodec]_vars

\* Every frame was encoded, every byte arrived, and the decoder stopped.
CodecDone ==
    /\ c_enc = Len(FramesOfAll(c_msgs))
    /\ c_wire = <<>>
    /\ \/ c_status # "ok"
       \/ decode(c_buf, decoding_head).res = "none"

\* The chunks the line framing can carry: not empty, no newline inside.
Framable(m) ==
    \A i \in 1..Len(m.chunks) :
        /\ m.chunks[i] # <<>>
        /\ \A j \in 1..Len(m.chunks[i]) : m.chunks[i][j] # NL

\* C3 as stated: for every message, decode of encode gives the same header
\* and flag, the same chunks in order, and end-of-stream once.
C3_RoundTripAnyMessage ==
    CodecDone => (c_status = "ok" /\ c_frames = FramesOfAll(c_msgs))

\* C3 amended: the round trip holds for every message whose chunks are
\* non-empty and hold no newline byte.
C3_RoundTripFramable ==
    (CodecDone /\ Framable(c_msgs[1]))
        => (c_status = "ok" /\ c_frames = FramesOfAll(c_msgs))

\* A message with two body chunks and a follow-up went through the codec.
C3_Witness ==
    /\ CodecDone
    /\ Framable(c_msgs[1])
    /\ Len(c_msgs) = 2
    /\ Len(c_msgs[1].chunks) = 2
    /\ c_frames = FramesOfAll(c_msgs)

(***************************************************************************)
(* The command specification: a CommandExec on the agent whose child       *)
(* writes the lines of `script`, answered to a Remote host whose caller    *)
(* polls or drops the stream.                                              *)
(***************************************************************************)
Init ==
    /\ script \in [out : SeqsUpTo(OutLines, MaxOut), err : SeqsUpTo(ErrLines, MaxErr)]
    /\ child = [out |-> 0, err |-> 0, state |-> "running", os |-> OsExited(0)]
    /\ task = TaskInit
    /\ chan = <<>>
    /\ sent = <<>>
    /\ rx_alive = TRUE
    /\ s_pos = "header"
    /\ c_wire = <<>>
    /\ decoding_head = TRUE
    /\ c_status = "ok"
    /\ cl_call = "waiting"
    /\ cl_msg = NoMessage
    /\ cl_recv = <<>>
    /\ cl_body_state = "open"
    /\ cl_pulled = 0
    /\ cl_child = NoChild
    /\ cons = "none"
    /\ cl_lines = <<>>
    /\ CodecIdle
    /\ ReqIdle
    /\ LibIdle

Next ==
    \/ ChildWrite("out")
    \/ ChildWrite("err")
    \/ ChildExit
    \/ PollForward
    \/ PollStatus
    \/ ServerWriteHeader
    \/ ServerWriteChunk
    \/ ServerWriteEnd
    \/ ClientDecode
    \/ ClientResolve
    \/ ConsumerPoll
    \/ ConsumerDrop

Spec == Init /\ [][Next]_vars

(***************************************************************************)
(* The request specification: up to MaxReqs requests on one connection.    *)
(***************************************************************************)
InitReq ==
    /\ q_reqs \in SeqsUpTo(Requests, MaxReqs) \ {<<>>}
    /\ q_idx = 0
    /\ q_up = <<>>
    /\ q_srv_head = TRUE
    /\ q_conn = "open"
    /\ q_svc = <<>>
    /\ q_out = 0
    /\ q_wrote = <<>>
    /\ q_wbuf = NoWBuf
    /\ q_ready = {}
    /\ q_body = <<>>
    /\ q_down = <<>>
    /\ q_cl_head = TRUE
    /\ q_got = <<>>
    /\ q_pend = <<>>
    /\ q_remote = <<>>
    /\ q_local = <<>>
    /\ CodecIdle
    /\ c_wire = <<>>
    /\ decoding_head = TRUE
    /\ c_status = "ok"
    /\ CmdIdle
    /\ LibIdle

NextReq ==
    \/ ClientRequest
    \/ AgentCall
    \/ AgentRespond
    \/ AgentWriteBody
    \/ ClientResponse
    \/ AgentFlush
    \/ \E i \in 1..MaxReqs : AgentReady(i)
    \/ ClientResult
    \/ \E i \in 1..MaxReqs : ClientPoll(i)
    \/ ReqConnLost
    \/ LocalRequest

SpecReq == InitReq /\ [][NextReq]_vars

\* Every specification of the client library leaves the wire idle.
WireIdle ==
    /\ CodecIdle
    /\ c_wire = <<>>
    /\ decoding_head = TRUE
    /\ c_status = "ok"
    /\ CmdIdle
    /\ ReqIdle

(***************************************************************************)
(* The round-trip specification: one Request value of any variant.         *)
(***************************************************************************)
InitRt ==
    /\ rt_req \in TypedRequests
    /\ rt_pc = "new"
    /\ rt_msg = BodyEnd
    /\ rt_wire = <<>>
    /\ rt_back = NoBack
    /\ rt_resp = NoResp
    /\ WireIdle
    /\ LcIdle
    /\ FIdle
    /\ ChIdle
    /\ MoreIdle

NextRt == RtIntoMsg \/ RtPeerWrite \/ RtEncode \/ RtDecode \/ RtFromMsg \/ RtCall

SpecRt == InitRt /\ [][NextRt]_vars

(***************************************************************************)
(* The client library specification: up to MaxCalls calls of Package or    *)
(* of Service, one after the other, on one machine.                        *)
(***************************************************************************)
InitLib ==
    /\ \/ /\ l_endpoint = "Package"
          /\ l_prov \in PackageProviders
          /\ l_db \in SUBSET PkgNames
       \/ /\ l_endpoint = "Service"
          /\ l_prov = "Apt"
          /\ l_db = {}
    /\ l_procs = {}
    /\ l_call = NoCall
    /\ l_pc = "idle"
    /\ l_chk = "none"
    /\ l_res = "pending"
    /\ l_issued = <<>>
    /\ l_prev = NoFinished
    /\ l_n = 0
    /\ l_chk_err = NoError
    /\ l_err = NoError
    /\ RtIdle
    /\ WireIdle
    /\ FIdle
    /\ ChIdle
    /\ MoreIdle

NextLib == LibCall \/ LibCheck \/ LibDo \/ LibProcExit

SpecLib == InitLib /\ [][NextLib]_vars

(***************************************************************************)
(* The factory specification: one call of a factory on any machine.        *)
(***************************************************************************)
InitFactory ==
    /\ f_endpoint \in {"Command", "Package", "Service"}
    /\ \/ /\ f_endpoint = "Command"
          /\ f_env = NoEnv
       \/ /\ f_endpoint = "Package"
          /\ f_env \in {Env(t, "other", "Standalone", 10) : t \in [Programs -> ProbeOutcomes]}
       \/ /\ f_endpoint = "Service"
          /\ f_env \in {Env([NoEnv.type EXCEPT !["brew"] = b], s, o, v) :
                            b \in ProbeOutcomes, s \in StatOutcomes,
                            o \in OsFamilies, v \in MinorVersions}
    /\ f_pc = "new"
    /\ f_result = NoFactoryResult
    /\ RtIdle
    /\ LcIdle
    /\ ChIdle
    /\ WireIdle
    /\ MoreIdle

NextFactory == FactoryCall

SpecFactory == InitFactory /\ [][NextFactory]_vars

(***************************************************************************)
(* The Child specification: up to MaxOps calls on one new Child, made by   *)
(* From<tokio_process::Child> or by Child::from_msg.                       *)
(***************************************************************************)
InitChild ==
    /\ ch_origin \in {"spawn", "msg"}
    /\ ch_stream = "Some"
    /\ ch_exit = "status"
    /\ ch_alive = TRUE
    /\ ch_log = <<>>
    /\ RtIdle
    /\ LcIdle
    /\ FIdle
    /\ WireIdle
    /\ MoreIdle

NextChild == ChTakeStream \/ ChPoll \/ ChResult

SpecChild == InitChild /\ [][NextChild]_vars

(***************************************************************************)
(* The CommandResult specification: the result() of one Child whose stream *)
(* was not taken.                                                          *)
(***************************************************************************)
InitResult ==
    /\ rs_items \in SeqsUpTo(ResultLines, MaxLines)
    /\ rs_end \in {"end", "error"}
    /\ rs_status \in StatusOutcomes
    /\ rs_pos = 0
    /\ rs_acc = <<>>
    /\ rs_fold = "running"
    /\ rs_st = "waiting"
    /\ rs_out = CmdResult("pending", <<>>)
    /\ WireIdle
    /\ LibBaseIdle
    /\ MoreIdleBut("rs")

NextResult == RsLine \/ RsStreamEnd \/ RsStatus

SpecResult == InitResult /\ [][NextResult]_vars

(***************************************************************************)
(* The Plain::call specification: one response of the transport.           *)
(***************************************************************************)
InitCall ==
    /\ ca_resp \in Responses
    /\ ca_pc = "called"
    /\ ca_out = NoCallOut
    /\ WireIdle
    /\ LibBaseIdle
    /\ MoreIdleBut("ca")

NextCall == CaCall

SpecCall == InitCall /\ [][NextCall]_vars

(***************************************************************************)
(* The agent specification: MaxConns peers connect and send lines.         *)
(***************************************************************************)
InitAgent ==
    /\ ag_proc = "running"
    /\ ag_telemetry \in {"ok", "error"}
    /\ cn = [i \in Conns |-> NoConn]
    /\ ag_log = <<>>
    /\ WireIdle
    /\ LibBaseIdle
    /\ MoreIdleBut("ag")

NextAgent == \E i \in Conns : AgAccept(i) \/ AgReceive(i) \/ AgDecode(i)

SpecAgent == InitAgent /\ [][NextAgent]_vars

(***************************************************************************)
(* The provider setter specification: one Host, its clones, and up to      *)
(* MaxSets calls of a setter.                                              *)
(***************************************************************************)
InitSetter ==
    /\ st_host \in {"Local", "Plain"}
    /\ st_table = DefaultTable
    /\ st_others = 0
    /\ st_pc = "idle"
    /\ st_call = NoSetterCall
    /\ st_attempts = 0
    /\ st_n = 0
    /\ WireIdle
    /\ LibBaseIdle
    /\ MoreIdleBut("st")

NextSetter == StSet \/ StTry \/ StWake \/ StClone \/ StDrop

SpecSetter == InitSetter /\ [][NextSetter]_vars

(***************************************************************************)
(* The package query specification: installed(name) of one provider on     *)
(* one outcome of its query command.                                       *)
(***************************************************************************)
InitQuery ==
    /\ pq_prov \in AllPackageProviders
    /\ pq_name \in CalledNames
    /\ pq_out \in Outputs
    /\ pq_pc = "called"
    /\ pq_res = NoQueryResult
    /\ WireIdle
    /\ LibBaseIdle
    /\ MoreIdleBut("pq")

NextQuery == PqInstalled

SpecQuery == InitQuery /\ [][NextQuery]_vars

(***************************************************************************)
(* The server specification: the agent's side of one CommandExec response, *)
(* with a connection that can be lost. The reactor polls a task that can   *)
(* go on and the transport writes while the connection lasts. The child is *)
(* another program: nothing makes it write or exit.                        *)
(***************************************************************************)
\* The reactor polls the spawned task, the Join of the forward and the status.
TaskStep == PollForward \/ PollStatus

\* The transport writes the response while the connection lasts.
TransportStep == ServerWriteHeader \/ ServerWriteChunk \/ ServerWriteEnd

NextServer ==
    \/ ChildWrite("out")
    \/ ChildWrite("err")
    \/ ChildExit
    \/ PollForward
    \/ PollStatus
    \/ ServerWriteHeader
    \/ ServerWriteChunk
    \/ ServerWriteEnd
    \/ ReceiverDrop

\* Weak fairness of TaskStep, written out: a poll of the Join always changes
\* the task, so TaskStep is enabled exactly while the task is alive.
TaskFair == []<>(task.state # "alive") \/ []<><<TaskStep>>_vars

SpecServer ==
    /\ Init
    /\ [][NextServer]_vars
    /\ TaskFair
    /\ WF_vars(TransportStep)

(***************************************************************************)
(* The ignored-stream specification: one CommandExec response whose Child  *)
(* is polled as a future on the Remote host, its stream never taken.       *)
(***************************************************************************)
NextIgnore ==
    \/ ChildWrite("out")
    \/ ChildWrite("err")
    \/ ChildExit
    \/ PollForward
    \/ PollStatus
    \/ ServerWriteHeader
    \/ ServerWriteChunk
    \/ ServerWriteEnd
    \/ ClientDecode
    \/ ClientResolve
    \/ ChildPoll

SpecIgnore == Init /\ [][NextIgnore]_vars

(***************************************************************************)
(* The concurrent wrapper specification: two callers of Package::install   *)
(* or of Service::action("start") on one host.                             *)
(***************************************************************************)
InitRace ==
    /\ rc_kind \in {"Package", "Service"}
    /\ rc_state \in BOOLEAN
    /\ rc_procs = 0
    /\ rc = [i \in Callers |-> RaceCall("new", "none", "pending")]
    /\ rc_log = <<>>
    /\ WireIdle
    /\ LibBaseIdle
    /\ MoreIdleBut("rc")

NextRace ==
    \/ \E i \in Callers : RcCall(i)
    \/ \E i \in Callers : RcCheck(i)
    \/ \E i \in Callers : RcDo(i)
    \/ RcProcExit

SpecRace == InitRace /\ [][NextRace]_vars

(***************************************************************************)
(* The legacy telemetry specification: getter calls on one new Telemetry.  *)
(***************************************************************************)
InitLegacy ==
    /\ tg_fields = telemetry_new
    /\ tg_ok = [f \in TgNames |-> 0]
    /\ tg_last = NoTgCall
    /\ tg_n = 0
    /\ WireIdle
    /\ LibBaseIdle
    /\ MoreIdleBut("tg")

NextLegacy == TgGet

SpecLegacy == InitLegacy /\ [][NextLegacy]_vars

(***************************************************************************)
(* The filter specification: the stream of a Child made by from_msg, on a  *)
(* body that has arrived: up to MaxBody lines of the child's output, then  *)
(* the sentinel of the agent unless its task failed before sending it.     *)
(***************************************************************************)
MaxBody == 2

\* ExitStatus:x, a line with the prefix and no JSON behind it.
PrefixOnly == B_ExitStatus \o <<120>>

BodyLines == {B_a, PrefixOnly, FakeSentinel}

Bodies ==
    {ls \o t : ls \in SeqsUpTo(BodyLines, MaxBody),
               t \in {<<>>} \cup {<<sentinel_frame(st)>> : st \in StatusValues}}

InitFilter ==
    /\ cl_recv \in Bodies
    /\ cl_body_state \in {"end", "error"}
    /\ cl_call = "child"
    /\ cl_msg = MessageFrame(child_into_msg_header, TRUE)
    /\ cl_child = from_msg
    /\ cons = "holding"
    /\ cl_pulled = 0
    /\ cl_lines = <<>>
    /\ script = [out |-> <<>>, err |-> <<>>]
    /\ child = [out |-> 0, err |-> 0, state |-> "running", os |-> OsExited(0)]
    /\ task = TaskInit
    /\ chan = <<>>
    /\ sent = <<>>
    /\ rx_alive = TRUE
    /\ s_pos = "header"
    /\ CodecIdle
    /\ c_wire = <<>>
    /\ decoding_head = TRUE
    /\ c_status = "ok"
    /\ ReqIdle
    /\ LibIdle

NextFilter == ConsumerPoll \/ ConsumerDrop

SpecFilter == InitFilter /\ [][NextFilter]_vars

(***************************************************************************)
(* Properties of the command specification.                                *)
(***************************************************************************)
\* The body the agent wrote is complete.
BodyWritten == s_pos = "ended"

\* The chunks of `sent` that have the prefix and the JSON of a status.
SentinelsSent == {i \in 1..Len(sent) : is_sentinel(sent[i].data)}

\* No sentinel is among the chunks the consumer pulled.
NoSentinelPulled == \A i \in 1..cl_pulled : ~is_sentinel(cl_recv[i])

\* C2: on the body channel the chunk of the exit-status task is the last
\* one, whatever the interleaving of the two tasks, and the chunks of one
\* source are in the order the child wrote them.
C2_SentinelLastSourcesOrdered ==
    \A i \in 1..Len(sent) : \A j \in 1..Len(sent) :
        i < j =>
            /\ sent[i].src # "status"
            /\ (sent[i].src = sent[j].src => sent[i].idx < sent[j].idx)

\* C4: once the consumer has drained the stream of a Child to its end, the
\* exit-status future holds an ExitStatus value and not an error.
C4_DrainedGivesStatus ==
    cons = "drained" => cl_child.rx.st = "value"

\* C5: on a Remote host, when the stream was dropped and no sentinel had
\* been read from it, the exit-status future is the error 'Stream dropped
\* before ExitStatus was sent', not a value.
C5_DropBeforeSentinelIsError ==
    (cons = "dropped" /\ NoSentinelPulled) => cl_child.rx = RxError(StreamDropped)

\* The stream was dropped while the sentinel had arrived and was not read.
C5_Witness ==
    /\ cons = "dropped"
    /\ NoSentinelPulled
    /\ \E i \in (cl_pulled + 1)..Len(cl_recv) : is_sentinel(cl_recv[i])
    /\ cl_child.rx = RxError(StreamDropped)

\* C6: on a Remote host the exit-status future holds a value only in
\* states where the consumer has pulled the sentinel out of the stream.
C6_NoStatusBeforeSentinelPulled ==
    cl_child.rx.st = "value" => ~NoSentinelPulled

\* The sentinel was pulled by a consumer that still holds the stream, after
\* the status had waited unread in the received body.
C6_Witness ==
    /\ cl_child.rx.st = "value"
    /\ cons = "holding"
    /\ cl_pulled >= 2
    /\ is_sentinel(cl_recv[cl_pulled])

\* C7: a complete command response body holds exactly one chunk with the
\* prefix 'ExitStatus:' and the JSON of a status, also when the child's
\* exit-status future or its output stream fails.
C7_ExactlyOneSentinel ==
    BodyWritten => Cardinality(SentinelsSent) = 1

\* C22 as stated: in every response body the agent produces, no chunk but
\* the one of the exit-status task begins with the prefix 'ExitStatus:'.
C22_OnlySentinelHasPrefix ==
    \A i \in 1..Len(sent) :
        starts_with(sent[i].data, B_ExitStatus) => sent[i].src = "status"

\* success is a zero exit code; without a code there is no success.
Consistent(s) == s.success <=> (s.has_code /\ s.code = 0)

\* C27: every ExitStatus observable through a Child, whether built from a
\* local process or decoded from a sentinel chunk, has success = true if and
\* only if code = 0, and a process terminated by a signal yields code = none
\* with success = false.
C27_StatusConsistent ==
    /\ (child.state = "exited" /\ child.os # OsWaitError) =>
          /\ Consistent(exit_status_of(child.os))
          /\ child.os = OsSignaled =>
                exit_status_of(child.os) = ExitStatus(FALSE, FALSE, 0)
    /\ cl_child.rx.st = "value" => Consistent(cl_child.rx.v)

\* The output stream of the child fails: a line that is not UTF-8.
StreamFails ==
    \E src \in {"out", "err"} : \E i \in 1..Len(script[src]) :
        \E j \in 1..Len(script[src][i]) : script[src][i][j] >= 128

\* C32: provided the connection keeps reading, the forwarding task never
\* blocks forever: once the child has exited (or was killed by a failed
\* task) the body is terminated by end-of-body; a task that has
\* finished has sent the sentinel, whatever output is buffered in the
\* channel; the task fails only on a failing output stream, a failing wait
\* or a lost connection; and end-of-body is written only once the task has
\* ended (both Senders dropped) and the channel is empty.
C32_TaskTerminates ==
    /\ (child.state # "running") ~> (~rx_alive \/ s_pos = "ended")
    /\ [](task.state = "finished" =>
            \E i \in 1..Len(sent) :
                /\ sent[i].src = "status"
                /\ sent[i].data = sentinel_frame(exit_status_of(child.os)))
    /\ [](task.state = "failed" =>
            (StreamFails \/ child.os = OsWaitError \/ ~rx_alive))
    /\ [](s_pos = "ended" => (task.state # "alive" /\ chan = <<>>))

\* The channel is full: tx1 is parked on an output chunk the transport has
\* not taken. The sentinel of tx2 is in the channel behind that chunk, and
\* the task has finished, dropping both Senders, while the connection reads.
C32_Witness ==
    /\ rx_alive
    /\ task.state = "finished"
    /\ task.parked.tx1
    /\ Len(chan) = 2
    /\ chan[1].src \in {"out", "err"}
    /\ chan[2].src = "status"
    /\ chan[2].data = sentinel_frame(exit_status_of(child.os))

\* C33: once the receiving end of the body is gone, the forwarding task
\* forwards no further chunk, it ends, and a task that has failed has released
\* the child: the subprocess is no longer running.
C33_TaskStopsOnDisconnect ==
    /\ [][~rx_alive => sent' = sent]_vars
    /\ (~rx_alive ~> task.state # "alive")
    /\ [](task.state = "failed" => child.state # "running")

\* The Child of the Remote host has been polled to its end.
PollEnded == cons \in {"resolved", "failed", "panicked"}

\* C34: a Child polled as a future with its stream not taken drains the
\* stream itself: the stream is taken by the first poll, the Child resolves
\* only when the whole body was pulled, and for a child that exited and whose
\* output did not fail it resolves on the Remote host to the exit status the
\* process had, as it does on the Local host.
C34_IgnoredStreamResolves ==
    /\ (cons = "resolved" =>
            /\ cl_body_state = "end"
            /\ cl_pulled = Len(cl_recv)
            /\ cl_child.rx = RxValue(exit_status_of(child.os)))
    /\ ((PollEnded /\ child.state = "exited" /\ child.os # OsWaitError /\ ~StreamFails)
            => cons = "resolved")

\* The chunks the forwarding task put on the body channel.
SentData == [i \in 1..Len(sent) |-> sent[i].data]

\* C35: the body is transmitted intact, empty lines included: the chunks the
\* client received are the chunks the agent sent, in order, and the body ends
\* on the client only when the agent has ended it and every chunk it sent,
\* the empty ones, the later lines and the sentinel, was received.
C35_EmptyLineIntact ==
    /\ Len(cl_recv) <= Len(sent)
    /\ cl_recv = SubSeq(SentData, 1, Len(cl_recv))
    /\ cl_body_state = "end" => (s_pos = "ended" /\ cl_recv = SentData)

\* The output stream or the exit-status future of the child has failed and
\* ended the forwarding task.
ServerFailed ==
    /\ task.state = "failed"
    /\ (StreamFails \/ child.os = OsWaitError)

\* C36: the header of a command response is {"Ok": null} whatever the child
\* does later; after a failure of the output stream or of the exit-status
\* future the body holds no sentinel, no error is put on the wire, and a
\* consumer of the Remote host that has drained the stream has the error
\* 'Stream dropped before ExitStatus was sent'.
C36_FailureDiscarded ==
    /\ cl_call \in {"waiting", "received", "child"}
    /\ ServerFailed => \A i \in 1..Len(sent) : sent[i].src # "status"
    /\ (ServerFailed /\ cons = "drained") => cl_child.rx = RxError(StreamDropped)

(***************************************************************************)
(* Properties of the request specification.                                *)
(***************************************************************************)
\* The header is {"Ok": value} or {"Err": string}: Plain::call decodes it.
IsEnvelope(header) == call_decode(header).kind # "decode_error"

\* C1: every well-formed request gives the same typed result through the
\* Remote host as through a Local host on the agent's machine.
C1_RemoteSameAsLocal ==
    \A i \in 1..Len(q_reqs) :
        (/\ WellFormed(q_reqs[i])
         /\ i <= Len(q_local)
         /\ i <= Len(q_remote)
         /\ q_remote[i].done)
            => SameTyped(q_remote[i], q_local[i])

\* C8: the header of every response message the agent writes is a
\* Result-shaped envelope, for bool and Telemetry responses too.
C8_EveryHeaderEnveloped ==
    \A i \in 1..Len(q_svc) :
        q_svc[i].res = "ok" => IsEnvelope(q_svc[i].frame.message)

\* C9: a request that fails at any stage is answered with an Err header;
\* the service future never fails and the connection stays open.
C9_FailureIsErrEnvelope ==
    /\ q_conn = "open"
    /\ \A i \in 1..Len(q_svc) :
        /\ q_svc[i].res = "ok"
        /\ (~WellFormed(q_reqs[i]) \/ ~q_reqs[i].outcome.ok)
              => call_decode(q_svc[i].frame.message).kind = "remote"

\* The header of response i is among the frames put on the connection.
HeaderOnConnection(i) ==
    \E p \in 1..Len(q_wrote) : q_wrote[p] = Wrote(i, q_svc[i].frame)

\* C10: a header that names no known variant, received on a connection
\* whose earlier requests were all answered, is answered with an Err
\* envelope without body and is not executed; once the transport has taken
\* the answer up and holds nothing in its write buffer, the answer is on
\* the connection; the connection stays open; and a well-formed request
\* that follows is executed and answered.
C10_UnknownVariantAnswered ==
    \A i \in 1..Len(q_svc) :
        (/\ q_reqs[i].header.k \notin KnownKeys
         /\ \A j \in 1..(i - 1) : q_svc[j].res = "ok") =>
            /\ ~q_svc[i].executed
            /\ q_svc[i].res = "ok"
            /\ call_decode(q_svc[i].frame.message).kind = "remote"
            /\ ~q_svc[i].frame.body
            /\ q_svc[i].body = <<>>
            /\ (q_out >= i /\ q_wbuf = NoWBuf) => HeaderOnConnection(i)
            /\ q_conn = "open"
            /\ (i < Len(q_svc) /\ WellFormed(q_reqs[i + 1])) =>
                  /\ q_svc[i + 1].executed
                  /\ q_svc[i + 1].res = "ok"

\* The body of response i is written to its end among the frames p..q.
BodyEndedWithin(i, p, q) ==
    \E e \in p..q : q_wrote[e] = Wrote(i, BodyEnd)

C12_RequestRoundTrip ==
    rt_pc \in {"failed", "done"} =>
        /\ rt_pc = "done"
        /\ rt_back.ok
        /\ rt_back.k = rt_req.k
        /\ rt_back.req = rt_req

\* A ServiceAction whose name holds a double quote made the round trip.
C12_Witness ==
    /\ rt_pc = "done"
    /\ rt_req.k = K_ServiceAction
    /\ rt_req.name = B_quote
    /\ rt_back.req = rt_req

StreamingVariants ==
    {K_CommandExec, K_PackageInstall, K_PackageUninstall, K_ServiceAction}

\* C13: the response message of a request carries a body exactly when the
\* variant is CommandExec, PackageInstall, PackageUninstall or
\* ServiceAction; the responses of the six other variants carry none.
C13_BodyIffChildVariant ==
    (rt_pc = "answered" /\ rt_resp.res = "ok") =>
        /\ rt_resp.frame.kind = "Message"
        /\ rt_resp.frame.body <=> (rt_req.k \in StreamingVariants)
        /\ (rt_resp.body # <<>>) <=> (rt_req.k \in StreamingVariants)

\* A PackageInstall was answered with a header and a body.
C13_Witness ==
    /\ rt_pc = "answered"
    /\ rt_resp.res = "ok"
    /\ rt_req.k = K_PackageInstall
    /\ rt_resp.frame.body
    /\ rt_resp.body # <<>>

(***************************************************************************)
(* Properties of the client library specification.                         *)
(***************************************************************************)
Issued(k) == \E i \in 1..Len(l_issued) : l_issued[i] = k

\* C14: Package.install issues PackageInstall exactly when its installed
\* check resolved to false and resolves to None, with no PackageInstall
\* issued, when the check resolved to true; Package.uninstall issues
\* PackageUninstall exactly when the check resolved to true and resolves to
\* None otherwise.
C14_PackageRequestIffCheck ==
    /\ l_call.fn = "install" =>
          /\ Issued(K_PackageInstall) <=> l_chk = "false"
          /\ l_chk = "true" => l_res = "None"
          /\ ~Issued(K_PackageUninstall)
    /\ l_call.fn = "uninstall" =>
          /\ Issued(K_PackageUninstall) <=> l_chk = "true"
          /\ l_chk = "false" => l_res = "None"
          /\ ~Issued(K_PackageInstall)
    /\ (l_call.fn \in {"install", "uninstall"} /\ l_pc # "check") =>
          l_issued[1] = K_PackageInstalled /\ l_chk # "none"

\* An install resolved to None after a check that found the package, on a
\* machine that then ran no install command.
C14_Witness ==
    /\ l_call.fn = "install"
    /\ l_pc = "done"
    /\ l_chk = "true"
    /\ l_res = "None"
    /\ l_issued = <<K_PackageInstalled>>
    /\ l_procs = {}

\* C15 as stated: once Package.install(n) has resolved successfully,
\* installed(n) returns true and a further install(n) resolves to None.
C15_InstalledAfterInstall ==
    (/\ l_pc = "done"
     /\ l_prev.call.fn = "install"
     /\ l_prev.res \in {"None", "Some"}
     /\ l_call.name = l_prev.call.name) =>
        /\ (l_call.fn = "installed" /\ l_res \in {"true", "false"}) => l_res = "true"
        /\ (l_call.fn = "install" /\ l_res \in {"None", "Some"}) => l_res = "None"

RECURSIVE CountOf(_, _)
CountOf(k, issued) ==
    IF issued = <<>> THEN 0
    ELSE (IF Head(issued) = k THEN 1 ELSE 0) + CountOf(k, Tail(issued))

\* The desired state of the service already holds.
AlreadySo ==
    \/ l_call.action = B_start /\ l_chk = "true"
    \/ l_call.action = B_stop /\ l_chk = "false"

\* C16 as stated: Service.action(v) resolves to None exactly when the
\* desired state already holds; in every other case it issues exactly one
\* ServiceAction request and resolves to Some(Child); for another verb it
\* issues no ServiceRunning request.
C16_ActionAsStated ==
    (l_call.fn = "action" /\ l_pc = "done") =>
        /\ l_res = "None" <=> AlreadySo
        /\ ~AlreadySo => (CountOf(K_ServiceAction, l_issued) = 1 /\ l_res = "Some")
        /\ ~action_checks(l_call.action) => l_issued = <<K_ServiceAction>>

\* C16 amended: Service.action(v) resolves to None exactly when the desired
\* state already holds; when the running check fails it issues no
\* ServiceAction request and fails; in every other case it issues exactly one
\* ServiceAction request and resolves to Some(Child), or fails when that
\* request fails; for another verb it issues no ServiceRunning request.
C16_ActionUnlessFailure ==
    l_call.fn = "action" =>
        /\ l_pc = "done" => (l_res = "None" <=> AlreadySo)
        /\ AlreadySo => CountOf(K_ServiceAction, l_issued) = 0
        /\ l_chk = "error" =>
              (CountOf(K_ServiceAction, l_issued) = 0 /\ l_res = "error")
        /\ (l_pc \in {"do", "done"} /\ ~AlreadySo /\ l_chk # "error") =>
              /\ CountOf(K_ServiceAction, l_issued) = 1
              /\ l_pc = "done" => l_res \in {"Some", "error"}
        /\ action_checks(l_call.action) => l_issued[1] = K_ServiceRunning
        /\ ~action_checks(l_call.action) => l_issued = <<K_ServiceAction>>

\* A stop of a running service issued ServiceRunning, then one
\* ServiceAction, and resolved to Some(Child).
C16_Witness ==
    /\ l_call.fn = "action"
    /\ l_call.action = B_stop
    /\ l_pc = "done"
    /\ l_chk = "true"
    /\ l_issued = <<K_ServiceRunning, K_ServiceAction>>
    /\ l_res = "Some"

\* C17: Service.enable issues ServiceEnable only after enabled resolved to
\* false, and resolves to None with no ServiceEnable issued when it resolved
\* to true; Service.disable issues ServiceDisable only after enabled
\* resolved to true, and resolves to None when it resolved to false.
C17_EnableOnlyAfterCheck ==
    /\ l_call.fn = "enable" =>
          /\ l_issued[1] = K_ServiceEnabled
          /\ Issued(K_ServiceEnable) <=> l_chk = "false"
          /\ l_chk = "true" => l_res = "None"
          /\ ~Issued(K_ServiceDisable)
    /\ l_call.fn = "disable" =>
          /\ l_issued[1] = K_ServiceEnabled
          /\ Issued(K_ServiceDisable) <=> l_chk = "true"
          /\ l_chk = "false" => l_res = "None"
          /\ ~Issued(K_ServiceEnable)

\* A disable of a service that is not enabled resolved to None after the
\* check alone.
C17_Witness ==
    /\ l_call.fn = "disable"
    /\ l_pc = "done"
    /\ l_chk = "false"
    /\ l_res = "None"
    /\ l_issued = <<K_ServiceEnabled>>

(***************************************************************************)
(* Properties of the factory specification.                                *)
(***************************************************************************)
\* The candidates of the endpoint whose available() gives Ok(true).
AvailableAt(i) == available(f_endpoint, factory_order(f_endpoint)[i], f_env)

IsAvailable(i) == AvailableAt(i).ok /\ AvailableAt(i).b

Candidates == 1..Len(factory_order(f_endpoint))

\* C18 as stated: for every combination of availability results the
\* package and the service factory return the first available candidate of
\* their order, and never a candidate behind an available one.
C18_FirstAvailableReturned ==
    (f_pc = "done" /\ f_endpoint \in {"Package", "Service"}) =>
        /\ \A i \in Candidates :
              (IsAvailable(i) /\ \A j \in 1..(i - 1) : ~IsAvailable(j))
                  => f_result = FactoryResult("provider", factory_order(f_endpoint)[i])
        /\ \A i \in Candidates :
              f_result = FactoryResult("provider", factory_order(f_endpoint)[i])
                  => (IsAvailable(i) /\ \A j \in 1..(i - 1) : ~IsAvailable(j))

\* C19 as stated: a factory returns a provider or fails with
\* ProviderUnavailable naming its endpoint, and with no other error.
C19_ProviderOrUnavailable ==
    f_pc = "done" =>
        \/ f_result.kind = "provider"
        \/ f_result = FactoryResult("ProviderUnavailable", f_endpoint)

(***************************************************************************)
(* Properties of the Child specification.                                  *)
(***************************************************************************)
TookStreamAt(i) == ch_log[i] = ChildCall("take_stream", "Some")

\* C20: take_stream returns the stream at most once: the first call on a
\* Child that has not been polled returns Some, every later call returns
\* None, and once take_stream has returned Some, result() returns None.
C20_StreamTakenOnce ==
    \A i \in 1..Len(ch_log) :
        /\ (ch_log[i].op = "take_stream"
               /\ \A j \in 1..(i - 1) : ch_log[j].op \notin {"take_stream", "poll"})
              => ch_log[i].ret = "Some"
        /\ \A j \in 1..(i - 1) :
              /\ (ch_log[j].op = "take_stream" /\ ch_log[i].op = "take_stream")
                    => ch_log[i].ret = "None"
              /\ (TookStreamAt(j) /\ ch_log[i].op = "result")
                    => ch_log[i].ret = "None"
              /\ ~(TookStreamAt(j) /\ TookStreamAt(i))

\* The stream was taken, a second take_stream gave None, and result() gave
\* None.
C20_Witness ==
    /\ Len(ch_log) = 3
    /\ TookStreamAt(1)
    /\ ch_log[2] = ChildCall("take_stream", "None")
    /\ ch_log[3] = ChildCall("result", "None")

(***************************************************************************)
(* Properties of the CommandResult specification.                          *)
(***************************************************************************)
RECURSIVE Concat(_)
Concat(lines) == IF lines = <<>> THEN <<>> ELSE Head(lines) \o Concat(Tail(lines))

\* C21: for a Child whose stream was not taken, result() resolves to
\* Ok(output) if the exit status has success = true and to the error
\* Command(output) if it has success = false, output being the lines the
\* stream yielded, concatenated in stream order.
C21_ResultIsFoldedOutput ==
    /\ rs_out.kind \in {"Ok", "Command"} =>
          /\ rs_end = "end"
          /\ rs_status.st = "value"
          /\ rs_out.output = Concat(rs_items)
          /\ rs_out.kind = "Ok" <=> rs_status.v.success
    /\ (rs_fold = "done" /\ rs_st = "done") => rs_out.kind \in {"Ok", "Command"}

\* A Child that printed "a" then "e" and exited with code 1 gave the error
\* Command("ae").
C21_Witness ==
    /\ rs_items = <<B_a, B_e>>
    /\ rs_status = RxValue(exit_status_of(OsExited(1)))
    /\ rs_out = CmdResult("Command", <<97, 101>>)

(***************************************************************************)
(* Properties of the Plain::call specification.                            *)
(***************************************************************************)
\* C23: when the response header the Remote host decodes is {"Err": text},
\* the request future fails with an error of kind Remote(text); when it is
\* {"Ok": value}, the future yields a message whose header is value and
\* whose body stream, if the response had one, is the unchanged body.
C23_RemoteErrorOrValue ==
    (ca_pc = "done" /\ ca_resp.st = "ok" /\ ca_resp.header.obj) =>
        /\ (ca_resp.header.k = B_Err /\ ca_resp.header.v.t = "str") =>
              /\ ca_out.kind = "Remote"
              /\ ca_out.text = ca_resp.header.v.s
        /\ ca_resp.header.k = B_Ok =>
              /\ ca_out.kind = "ok"
              /\ ca_out.header = ca_resp.header.v
              /\ ca_out.body = ca_resp.body

C23_Witness ==
    /\ ca_pc = "done"
    /\ ca_resp = Response("ok", JErr(B_a_nl_b), Body(TRUE, <<B_a>>))
    /\ ca_out.kind = "Remote"
    /\ ca_out.text = B_a_nl_b

(***************************************************************************)
(* Properties of the agent specification.                                  *)
(***************************************************************************)
\* The next line of connection i is a header line that is not valid JSON.
InvalidHeaderNext(i) ==
    /\ cn[i].st = "open"
    /\ cn[i].head
    /\ LET n == position_nl(cn[i].buf) IN
        /\ n > 1
        /\ from_slice(SubSeq(cn[i].buf, 1, n - 2)) = JsonError

\* C24: a header line that is not valid JSON makes decode return an error
\* that terminates the connection it arrived on, and only that connection:
\* every other connection is left as it was, open ones stay open with their
\* bytes and decoder state, and the agent process keeps running (so
\* AgAccept stays enabled for the connections not made yet).
C24_DecodeErrorEndsOneConnection ==
    [][\A i \in Conns :
        (InvalidHeaderNext(i) /\ AgDecode(i)) =>
            /\ cn'[i].st = "closed"
            /\ \A j \in Conns \ {i} : cn'[j] = cn[j]
            /\ ag_proc' = "running"]_vars

\* Connection 1 ended on a decode error; after that connection 2 was accepted
\* and a request of it was dispatched.
C24_Witness ==
    /\ ag_proc = "running"
    /\ cn[1].st = "closed"
    /\ cn[2].st = "open"
    /\ ag_log = <<Event("accept", 1), Event("error", 1), Event("accept", 2),
                  Event("request", 2)>>

(***************************************************************************)
(* Errors of the client library specification.                             *)
(***************************************************************************)
\* The calls that check before they act.
Wrappers == {"install", "uninstall", "action", "enable", "disable"}

\* C25: when the state check of an idempotence wrapper fails (installed for
\* install/uninstall, running for action start/stop, enabled for
\* enable/disable), the wrapper's future fails with the error the check
\* produced, unchanged (the same chain of kinds and messages), and no
\* mutating request is issued: the check is the only request of the call.
C25_CheckErrorUnchanged ==
    (l_pc = "done" /\ l_call.fn \in Wrappers /\ l_chk = "error") =>
        /\ l_res = "error"
        /\ l_chk_err \in {check_err(l_endpoint, l_call, e) : e \in RequestErrors}
        /\ l_err = l_chk_err
        /\ Len(l_issued) = 1
        /\ IsCheck(l_issued[1])

C25_Witness ==
    /\ l_pc = "done"
    /\ l_call.fn = "install"
    /\ l_chk = "error"
    /\ l_err = <<ErrKind("Request", "Package", "installed", ""),
                 ErrKind("Remote", "", "", "a")>>
    /\ l_issued = <<K_PackageInstalled>>

(***************************************************************************)
(* Properties of the provider setter specification.                        *)
(***************************************************************************)
\* C26: a provider-override setter replaces the provider only in a state
\* where no other clone of the Host shares the provider table; a setter that
\* fails with MutRef has found the table shared in each of its 5 attempts
\* and leaves the table as it was at the call; so the table never changes
\* while another clone exists.
C26_SetOnlyWhenUnique ==
    [][/\ st_table' # st_table =>
            /\ st_others = 0
            /\ st_others' = 0
            /\ st_pc' = "Ok"
            /\ st_table' = set_provider(st_table, st_call.which, st_call.provider)
       /\ st_pc' = "MutRef" =>
            /\ st_attempts' = Attempts
            /\ st_table' = st_call'.before]_vars

\* A setter failed with MutRef after a first setter had replaced a provider.
C26_Witness ==
    /\ st_pc = "MutRef"
    /\ st_n = 2
    /\ st_others > 0
    /\ st_table = Table("default", "custom", "default")

(***************************************************************************)
(* Properties of the package query specification.                          *)
(***************************************************************************)
\* installed() resolved to a boolean only on a successful exit of the query
\* command and failed on an unsuccessful one.
BooleanOnlyOnSuccess ==
    /\ pq_res.kind = "Ok" => (pq_out.kind = "exited" /\ pq_out.success)
    /\ (pq_out.kind = "exited" /\ ~pq_out.success) => pq_res.kind = "Err"

\* C28 as stated: for every package provider (apt, dnf, yum, homebrew, nix,
\* pkg), installed(name) resolves to a boolean only when the query command
\* exits successfully and fails with an error when it exits unsuccessfully.
C28_BooleanOnlyOnSuccess == pq_pc = "done" => BooleanOnlyOnSuccess

\* C28 amended: that holds for apt, dnf, yum, homebrew and nix; for pkg,
\* installed(name) resolves to the boolean "the query command exited
\* successfully" whenever the command ran, and fails only when it could not
\* be run.
C28_BooleanOnlyOnSuccessButPkg ==
    pq_pc = "done" =>
        IF pq_prov # "Pkg"
        THEN BooleanOnlyOnSuccess
        ELSE /\ pq_out.kind = "exited" =>
                  pq_res = QueryResult("Ok", pq_out.success, "")
             /\ pq_out.kind = "spawn_error" => pq_res.kind = "Err"

\* Pkg::installed resolved to false on an unsuccessful exit of pkg query.
C28_Witness ==
    /\ pq_pc = "done"
    /\ pq_prov = "Pkg"
    /\ pq_out.kind = "exited"
    /\ ~pq_out.success
    /\ pq_res = QueryResult("Ok", FALSE, "")

(***************************************************************************)
(* The Darwin providers of the service factory.                            *)
(***************************************************************************)
\* The telemetry is of a Darwin whose minor version is 11 or more.
DarwinEleven == f_env.family = "Darwin" /\ f_env.version_min >= 11

\* C29: the Launchctl service provider is available exactly when telemetry
\* has os.family = Darwin and os.version_min >= 11, and the Homebrew service
\* provider is available exactly when the brew probe succeeds and Launchctl
\* is available; so service::factory never returns Homebrew or Launchctl
\* for telemetry whose family is not Darwin.
C29_DarwinProviders ==
    f_pc # "idle" =>
        /\ launchctl_available(f_env).ok
        /\ launchctl_available(f_env).b <=> DarwinEleven
        /\ (homebrew_available(f_env).ok /\ homebrew_available(f_env).b)
              <=> (f_env.type["brew"] = "success" /\ launchctl_available(f_env).b)
        /\ (/\ f_pc = "done"
            /\ f_endpoint = "Service"
            /\ f_result.kind = "provider"
            /\ f_result.what \in {"Homebrew", "Launchctl"}) =>
                /\ DarwinEleven
                /\ f_result.what = "Homebrew" <=> f_env.type["brew"] = "success"

\* The service factory returned Homebrew on a Darwin.
C29_Witness ==
    /\ f_pc = "done"
    /\ f_endpoint = "Service"
    /\ f_env.family = "Darwin"
    /\ f_env.version_min = 11
    /\ f_result = FactoryResult("provider", "Homebrew")

(***************************************************************************)
(* The decoder's modes (codec specification).                              *)
(***************************************************************************)
\* The header frames decoded so far that announce a body.
BodyHeaders ==
    {i \in 1..Len(c_frames) : c_frames[i].kind = "Message" /\ c_frames[i].body}

\* The end-of-stream frames decoded so far.
EndFrames ==
    {i \in 1..Len(c_frames) : c_frames[i].kind = "Body" /\ ~c_frames[i].some}

\* The decoder is in header mode exactly outside a body: every body
\* announced has got its one end-of-stream frame, or the last one is open;
\* and a body frame follows a has-body header or a chunk, never a header
\* whose flag is 0 and never an end-of-stream frame.
DecoderModes ==
    /\ decoding_head <=> Cardinality(BodyHeaders) = Cardinality(EndFrames)
    /\ ~decoding_head <=> Cardinality(BodyHeaders) = Cardinality(EndFrames) + 1
    /\ \A i \in 1..Len(c_frames) :
        c_frames[i].kind = "Body" =>
            /\ i > 1
            /\ \/ c_frames[i - 1].kind = "Message" /\ c_frames[i - 1].body
               \/ c_frames[i - 1].kind = "Body" /\ c_frames[i - 1].some

\* The decoder changes mode only with the frame that says so.
DecoderSwitches ==
    /\ (decoding_head /\ ~decoding_head') =>
          /\ c_frames' = Append(c_frames, c_frames'[Len(c_frames')])
          /\ c_frames'[Len(c_frames')].kind = "Message"
          /\ c_frames'[Len(c_frames')].body
          /\ c_buf[position_nl(c_buf) - 1] = FlagBody
    /\ (~decoding_head /\ decoding_head') =>
          /\ c_frames' = Append(c_frames, BodyEnd)
          /\ position_nl(c_buf) = 1

\* C30: the decoder is in header mode initially and in every state outside
\* a body; it switches to body mode only on decoding a header whose flag
\* byte is 1 and returns to header mode only on decoding an empty line in
\* body mode; it emits exactly one end-of-stream frame per has-body header,
\* and after a header whose flag is 0 no body-chunk frame before the next
\* header frame.
C30_DecoderStateMachine == []DecoderModes /\ [][DecoderSwitches]_vars

(***************************************************************************)
(* Properties of the filter specification.                                 *)
(***************************************************************************)
\* The chunk begins with 'ExitStatus:'.
HasPrefix(v) == starts_with(from_utf8_lossy(v), B_ExitStatus)

NoPrefix(v) == ~HasPrefix(v)

\* C31: the filter removes from the line stream every body chunk that
\* begins with 'ExitStatus:' and passes every chunk that does not begin with
\* it through unchanged and in order; a chunk with the prefix is never
\* delivered to the consumer as an output line.
C31_PrefixChunksRemoved ==
    /\ \A i \in 1..Len(cl_lines) : ~HasPrefix(cl_lines[i])
    /\ cons = "drained" => cl_lines = SelectSeq(cl_recv, NoPrefix)

\* The positions of the chunks of the body that parse as a sentinel.
SentinelsReceived == {i \in 1..Len(cl_recv) : is_sentinel(cl_recv[i])}

\* C37: the filter never panics, whatever the number of chunks that parse
\* as a sentinel; the stream goes on to the end of the body, and the status
\* of a drained stream is the one of the first such chunk.
C37_SlotFulfilledOnce ==
    /\ cons # "panicked"
    /\ (cons = "drained" /\ SentinelsReceived # {}) =>
            \E i \in SentinelsReceived :
                /\ \A j \in SentinelsReceived : i <= j
                /\ cl_child.rx = RxValue(status_from_str(
                        SubSeq(from_utf8_lossy(cl_recv[i]), 12, Len(cl_recv[i]))))

(***************************************************************************)
(* Properties of the concurrent wrapper specification.                     *)
(***************************************************************************)
\* C38: the check and the act of a wrapper are separate requests and
\* nothing orders the requests of two callers: a caller goes its way on the
\* result of its own check alone, so a caller whose check was negative has
\* issued the mutating request whatever the other caller did, and resolves
\* to Some(Child) when that request succeeds; no step of a caller waits for
\* the other.
C38_NoMutualExclusion ==
    \A i \in Callers :
        /\ rc[i].chk = "false" =>
                (rc[i].pc = "do" \/ (rc[i].pc = "done" /\ rc[i].res \in {"Some", "error"}))
        /\ (rc[i].pc = "do" \/ rc[i].res = "Some") => rc[i].chk = "false"
        /\ rc[i].chk = "true" => (rc[i].pc = "done" /\ rc[i].res = "None")
        /\ rc[i].pc = "check" => ENABLED RcCheck(i)
        /\ rc[i].pc = "do" => ENABLED RcDo(i)

\* Both checks were executed before either mutating request; both were
\* negative, both requests were issued and both calls resolved to
\* Some(Child).
C38_Witness ==
    /\ \A i \in {1, 2} : rc[i] = RaceCall("done", "false", "Some")
    /\ Len(rc_log) >= 4
    /\ SubSeq(rc_log, 1, 4) = <<RaceEvent(1, "check"), RaceEvent(2, "check"),
                                RaceEvent(1, "do"), RaceEvent(2, "do")>>
    /\ rc_procs = 2

(***************************************************************************)
(* Further properties of the factory specification.                        *)
(***************************************************************************)
\* The first candidate of the factory's order whose probe fails, the ones
\* before it being probed and not available; 0 if there is none.
FirstFailing(endpoint, env) ==
    LET order == factory_order(endpoint)
        failing == {i \in 1..Len(order) :
                        /\ ~available(endpoint, order[i], env).ok
                        /\ \A j \in 1..(i - 1) :
                            LET a == available(endpoint, order[j], env) IN
                            a.ok /\ ~a.b}
    IN  IF failing = {} THEN 0 ELSE CHOOSE i \in failing : TRUE

\* C39: when the probe of a candidate fails, the candidates before it not
\* being available, the factory returns the error of that probe whatever
\* the later candidates are; the service factory fails whenever the probe
\* of Systemd, its first candidate, fails.
C39_ProbeErrorReturned ==
    f_pc = "done" =>
        /\ FirstFailing(f_endpoint, f_env) # 0 =>
                f_result = FactoryResult("error",
                    available(f_endpoint,
                        factory_order(f_endpoint)[FirstFailing(f_endpoint, f_env)],
                        f_env).why)
        /\ (f_endpoint = "Service" /\ f_env.stat \in {"failure", "error"}) =>
                f_result.kind = "error"

\* The probe of Apt failed on a machine that has dnf: the package factory
\* returned the error.
C39_Witness ==
    /\ f_pc = "done"
    /\ f_endpoint = "Package"
    /\ f_env.type["apt-get"] = "error"
    /\ f_env.type["dnf"] = "success"
    /\ f_result.kind = "error"

(***************************************************************************)
(* Properties of the legacy telemetry specification.                       *)
(***************************************************************************)
\* A field is filled exactly when one query for it has succeeded, and the
\* last call queried exactly when its field was empty, returned the cached
\* value otherwise, and left the field empty when its query failed.
LazyFields ==
    /\ \A f \in TgNames :
        /\ tg_ok[f] <= 1
        /\ tg_fields[f] # "None" <=> tg_ok[f] = 1
    /\ tg_n > 0 =>
        /\ tg_last.queried <=> tg_last.before = "None"
        /\ tg_last.before # "None" =>
                (tg_last.ret = tg_last.before /\ tg_fields[tg_last.field] = tg_last.before)
        /\ tg_last.ret = "Err" => tg_fields[tg_last.field] = "None"
        /\ (tg_last.queried /\ tg_last.ret # "Err") =>
                tg_fields[tg_last.field] = tg_last.ret

\* A getter call leaves every field but its own as it was.
OtherFieldsKept ==
    \A g \in TgNames : g # tg_last'.field => tg_fields'[g] = tg_fields[g]

\* C40: each getter queries the target only when its field is empty: at most
\* one query per field succeeds, a later call returns the cached value
\* without a query, a failed query leaves the field empty, and a getter
\* never changes another field.
C40_LazyGetters == []LazyFields /\ [][OtherFieldsKept]_vars

\* memory was asked for three times: the first query failed, the second
\* gave a value, the third call returned that value without a query though
\* the target would have given another.
C40_Witness ==
    /\ tg_n = 4
    /\ tg_last = TgCall("memory", "d1", "d1", FALSE)
    /\ tg_ok["memory"] = 1
    /\ tg_fields["cpu"] = "d2"
====
